---- MODULE Spec2Model ----
(***************************************************************************)
(* drillog: the library calls (Start, end, Debug .. Error) of package       *)
(* drillog, and the line parser (Parse), the tree builder (BuildTree,       *)
(* Stats) and the query server of internal/viewer.                         *)
(*                                                                         *)
(* Strings are sequences of one-character strings, so that suffix tests,   *)
(* slicing and scanning are computed as the Go code computes them; the     *)
(* empty string is <<>>.  A time.Time is a natural number: 0 is the zero   *)
(* time (IsZero), and Before is <.                                         *)
(***************************************************************************)
EXTENDS Naturals, Sequences, FiniteSets, TLC

VARIABLES input, parseOut, perr, phase, entries, tree, prevTree, stats, http, lib, scan

vars == <<input, parseOut, perr, phase, entries, tree, prevTree, stats, http, lib, scan>>

\* ------------------------------------------------------------------ bounds
MaxEntries == 3
MaxTime == 2
MaxLines == 3
MaxSpans == 2
MaxLogs == 1

\* ----------------------------------------------------------------- strings
Empty == <<>>
A == <<"a">>
B == <<"b">>
Cc == <<"c">>
X == <<"x">>
LevelInfo == <<"I">>
LevelError == <<"E">>
Started == <<"s", "t", "a", "r", "t", "e", "d">>
Completed == <<"c", "o", "m", "p", "l", "e", "t", "e", "d">>
SpStarted == <<" ">> \o Started
SpCompleted == <<" ">> \o Completed
MsgWork == <<"w", "o", "r", "k">>
MsgStartM == <<"m">> \o SpStarted
MsgStartN == <<"n">> \o SpStarted
MsgDoneM == <<"m">> \o SpCompleted
KeyDuration == <<"d", "u", "r", "a", "t", "i", "o", "n">>
Dur5 == <<"5", "m", "s">>
Dur9 == <<"9", "m", "s">>

\* map[string]string
EmptyMap == [k \in {} |-> Empty]
Put(m, k, v) == [x \in (DOMAIN m) \cup {k} |-> IF x = k THEN v ELSE m[x]]

\* type Entry
Entry(t, l, m, s, p, a) ==
  [time |-> t, level |-> l, message |-> m, span |-> s, parent |-> p, attrs |-> a]

\* ------------------------------------------------------------ parser.go
FormatUnknown == 0
FormatText == 1
FormatJSON == 2

KeyTime == <<"t", "i", "m", "e">>
KeyLevel == <<"l", "e", "v", "e", "l">>
KeyMsg == <<"m", "s", "g">>
KeySpan == <<"s", "p", "a", "n">>
KeyParent == <<"p", "a", "r", "e", "n", "t">>
Stamp1 ==
  <<"2", "0", "2", "5", "-", "1", "2", "-", "0", "4", "T", "1", "0", ":", "0", "0", ":",
     "0", "0", "Z">>
Stamp2 ==
  <<"2", "0", "2", "5", "-", "1", "2", "-", "0", "4", "T", "1", "0", ":", "0", "0", ":",
     "0", "1", "Z">>

\* the instants 1, 2, ... are the seconds 10:00:00, 10:00:01, ... of one day, and
\* Stamp(t) is instant t in RFC 3339, as time.Time.Format writes it
Seconds == <<"0", "1", "2", "3", "4", "5", "6", "7", "8", "9">>
Stamp(t) ==
  <<"2", "0", "2", "5", "-", "1", "2", "-", "0", "4", "T", "1", "0", ":", "0", "0", ":",
     "0">> \o <<Seconds[t]>> \o <<"Z">>

\* line[i] and line[a:b] with Go's 0-based indices
At(line, i) == line[i + 1]
Slice(line, a, b) == SubSeq(line, a + 1, b)

\* time.Parse(time.RFC3339Nano, v) on the timestamps of the input alphabet: the
\* instant, counted from the zero time, or an error
ParseTime(v) ==
  IF \E t \in DOMAIN Seconds : v = Stamp(t)
  THEN [ok |-> TRUE, time |-> CHOOSE t \in DOMAIN Seconds : v = Stamp(t)]
  ELSE [ok |-> FALSE, time |-> 0]

IsSpace(c) == c \in {" ", "\t", "\r", "\n"}

\* strings.TrimSpace
RECURSIVE TrimLeft(_)
TrimLeft(s) == IF s # <<>> /\ IsSpace(Head(s)) THEN TrimLeft(Tail(s)) ELSE s
RECURSIVE TrimRight(_)
TrimRight(s) ==
  IF s # <<>> /\ IsSpace(s[Len(s)]) THEN TrimRight(SubSeq(s, 1, Len(s) - 1)) ELSE s
TrimSpace(s) == TrimRight(TrimLeft(s))

\* unescapeQuoted: the loop from position i with builder b
RECURSIVE UnescapeFrom(_, _, _)
UnescapeFrom(s, i, b) ==
  IF i >= Len(s) THEN b
  ELSE IF At(s, i) = "\\" /\ i + 1 < Len(s)
  THEN LET c == At(s, i + 1)
           w == IF c = "n" THEN "\n"
                ELSE IF c = "t" THEN "\t"
                ELSE IF c = "r" THEN "\r"
                ELSE c
       IN  UnescapeFrom(s, i + 2, Append(b, w))
  ELSE UnescapeFrom(s, i + 1, Append(b, At(s, i)))

unescapeQuoted(s) ==
  IF \A i \in DOMAIN s : s[i] # "\\" THEN s ELSE UnescapeFrom(s, 0, <<>>)

\* SkipSpaces that skips nothing
SkipSpacesNone(line, i) == i

\* for i < n && line[i] == ' ' { i++ }
RECURSIVE SkipSpaces(_, _)
SkipSpaces(line, i) ==
  IF i < Len(line) /\ At(line, i) = " " THEN SkipSpaces(line, i + 1) ELSE i

\* for i < n && line[i] != '=' && line[i] != ' ' { i++ }
RECURSIVE ScanKey(_, _)
ScanKey(line, i) ==
  IF i < Len(line) /\ At(line, i) # "=" /\ At(line, i) # " " THEN ScanKey(line, i + 1) ELSE i

\* for i < n && line[i] != ' ' { i++ }
RECURSIVE ScanToSpace(_, _)
ScanToSpace(line, i) ==
  IF i < Len(line) /\ At(line, i) # " " THEN ScanToSpace(line, i + 1) ELSE i

\* ScanQuoted that takes every quote for the closing one
RECURSIVE ScanQuotedNoEscape(_, _)
ScanQuotedNoEscape(line, i) ==
  IF i < Len(line) /\ At(line, i) # "\"" THEN ScanQuotedNoEscape(line, i + 1) ELSE i

\* the scan of a quoted value up to the closing quote or the end of the line
RECURSIVE ScanQuoted(_, _)
ScanQuoted(line, i) ==
  IF i < Len(line) /\ At(line, i) # "\""
  THEN IF At(line, i) = "\\" /\ i + 1 < Len(line)
       THEN ScanQuoted(line, i + 2)
       ELSE ScanQuoted(line, i + 1)
  ELSE i

\* the outer loop of parseKeyValuePairs from position i0 with the map so far
RECURSIVE ScanPairs(_, _, _)
ScanPairs(line, i0, result) ==
  LET n == Len(line)
      i1 == SkipSpaces(line, i0)
      i2 == ScanKey(line, i1)
      key == Slice(line, i1, i2)
      i3 == i2 + 1
  IN  IF ~(i0 < n) \/ i1 >= n THEN result
      ELSE IF i2 >= n \/ At(line, i2) # "=" THEN ScanPairs(line, ScanToSpace(line, i2), result)
      ELSE IF i3 >= n THEN Put(result, key, Empty)
      ELSE IF At(line, i3) = "\""
      THEN LET i4 == ScanQuoted(line, i3 + 1)
               value == unescapeQuoted(Slice(line, i3 + 1, i4))
           IN  ScanPairs(line, IF i4 < n THEN i4 + 1 ELSE i4, Put(result, key, value))
      ELSE LET i4 == ScanToSpace(line, i3)
           IN  ScanPairs(line, i4, Put(result, key, Slice(line, i3, i4)))

parseKeyValuePairs(line) == ScanPairs(line, 0, EmptyMap)

\* ScanIter that keeps a token without '=' as a key of an empty value
ScanIterKeepBare(line, i0, result) ==
  LET n == Len(line)
      i1 == SkipSpaces(line, i0)
      i2 == ScanKey(line, i1)
      key == Slice(line, i1, i2)
      i3 == i2 + 1
  IN  IF i1 >= n
      THEN [i |-> i1, result |-> result, kind |-> "blank", from |-> i1, to |-> i1]
      ELSE IF i2 >= n \/ At(line, i2) # "="
      THEN [i |-> ScanToSpace(line, i2), result |-> Put(result, key, Empty), kind |-> "skip",
            from |-> i1, to |-> ScanToSpace(line, i2)]
      ELSE IF i3 >= n
      THEN [i |-> i3, result |-> Put(result, key, Empty), kind |-> "pair",
            from |-> i1, to |-> i3]
      ELSE IF At(line, i3) = "\""
      THEN LET i4 == ScanQuoted(line, i3 + 1)
               value == unescapeQuoted(Slice(line, i3 + 1, i4))
               i5 == IF i4 < n THEN i4 + 1 ELSE i4
           IN  [i |-> i5, result |-> Put(result, key, value), kind |-> "pair",
                from |-> i1, to |-> i5]
      ELSE LET i4 == ScanToSpace(line, i3)
           IN  [i |-> i4, result |-> Put(result, key, Slice(line, i3, i4)), kind |-> "pair",
                from |-> i1, to |-> i4]

\* one iteration of the outer loop of parseKeyValuePairs, entered with i0 < n:
\* the position and the map it leaves, what it met (only spaces, a token without
\* '=', or a key with its value) and where that began and ended
ScanIter(line, i0, result) ==
  LET n == Len(line)
      i1 == SkipSpaces(line, i0)
      i2 == ScanKey(line, i1)
      key == Slice(line, i1, i2)
      i3 == i2 + 1
  IN  IF i1 >= n
      THEN [i |-> i1, result |-> result, kind |-> "blank", from |-> i1, to |-> i1]
      ELSE IF i2 >= n \/ At(line, i2) # "="
      THEN [i |-> ScanToSpace(line, i2), result |-> result, kind |-> "skip",
            from |-> i1, to |-> ScanToSpace(line, i2)]
      ELSE IF i3 >= n
      THEN [i |-> i3, result |-> Put(result, key, Empty), kind |-> "pair",
            from |-> i1, to |-> i3]
      ELSE IF At(line, i3) = "\""
      THEN LET i4 == ScanQuoted(line, i3 + 1)
               value == unescapeQuoted(Slice(line, i3 + 1, i4))
               i5 == IF i4 < n THEN i4 + 1 ELSE i4
           IN  [i |-> i5, result |-> Put(result, key, value), kind |-> "pair",
                from |-> i1, to |-> i5]
      ELSE LET i4 == ScanToSpace(line, i3)
           IN  [i |-> i4, result |-> Put(result, key, Slice(line, i3, i4)), kind |-> "pair",
                from |-> i1, to |-> i4]

Get(m, k) == IF k \in DOMAIN m THEN m[k] ELSE Empty
KnownKeys == {KeyTime, KeyLevel, KeyMsg, KeySpan, KeyParent}

\* parseTextLine that fails on a time value time.Parse rejects
parseTextLineStrictTime(line) ==
  LET pairs == parseKeyValuePairs(line)
  IN  [err |-> KeyTime \in DOMAIN pairs /\ ~ParseTime(pairs[KeyTime]).ok,
       entry |->
         [time |-> IF KeyTime \in DOMAIN pairs THEN ParseTime(pairs[KeyTime]).time ELSE 0,
          level |-> Get(pairs, KeyLevel),
          message |-> Get(pairs, KeyMsg),
          span |-> Get(pairs, KeySpan),
          parent |-> Get(pairs, KeyParent),
          attrs |-> [k \in (DOMAIN pairs) \ KnownKeys |-> pairs[k]]]]

parseTextLine(line) ==
  LET pairs == parseKeyValuePairs(line)
  IN  [err |-> FALSE,
       entry |->
         [time |-> IF KeyTime \in DOMAIN pairs THEN ParseTime(pairs[KeyTime]).time ELSE 0,
          level |-> Get(pairs, KeyLevel),
          message |-> Get(pairs, KeyMsg),
          span |-> Get(pairs, KeySpan),
          parent |-> Get(pairs, KeyParent),
          attrs |-> [k \in (DOMAIN pairs) \ KnownKeys |-> pairs[k]]]]

\* json.Unmarshal into map[string]any, for one-line objects of string and number
\* members written without blanks: {"k":"v","n":42}.  A value is a pair
\* <<kind, text>>.  Any other line is a syntax error.
Digits == {"0", "1", "2", "3", "4", "5", "6", "7", "8", "9"}

RECURSIVE ScanString(_, _)
ScanString(line, i) ==
  IF i < Len(line) /\ At(line, i) # "\"" /\ At(line, i) # "\\" THEN ScanString(line, i + 1) ELSE i

RECURSIVE ScanDigits(_, _)
ScanDigits(line, i) ==
  IF i < Len(line) /\ At(line, i) \in Digits THEN ScanDigits(line, i + 1) ELSE i

JSONError == [err |-> TRUE, raw |-> [k \in {} |-> <<>>]]

\* the members of the object from position i (just after '{' or ','), raw so far
RECURSIVE ScanMembers(_, _, _)
ScanMembers(line, i, raw) ==
  LET n == Len(line)
      k1 == ScanString(line, i + 1)
      key == Slice(line, i + 1, k1)
      v0 == k1 + 2
      isStr == v0 < n /\ At(line, v0) = "\""
      v1 == IF isStr THEN ScanString(line, v0 + 1) ELSE ScanDigits(line, v0)
      value == IF isStr THEN <<"string", Slice(line, v0 + 1, v1)>>
               ELSE <<"number", Slice(line, v0, v1)>>
      next == IF isStr THEN v1 + 1 ELSE v1
  IN  IF ~(i < n /\ At(line, i) = "\"") THEN JSONError
      ELSE IF ~(k1 + 1 < n /\ At(line, k1) = "\"" /\ At(line, k1 + 1) = ":") THEN JSONError
      ELSE IF isStr /\ ~(v1 < n /\ At(line, v1) = "\"") THEN JSONError
      ELSE IF ~isStr /\ (v1 = v0 \/ (v1 > v0 + 1 /\ At(line, v0) = "0")) THEN JSONError
      ELSE IF next = n - 1 /\ At(line, next) = "}" THEN [err |-> FALSE, raw |-> Put(raw, key, value)]
      ELSE IF next < n /\ At(line, next) = "," THEN ScanMembers(line, next + 1, Put(raw, key, value))
      ELSE JSONError

Unmarshal(line) ==
  IF Len(line) < 2 \/ At(line, 0) # "{" THEN JSONError
  ELSE IF Len(line) = 2 THEN
    IF At(line, 1) = "}" THEN [err |-> FALSE, raw |-> [k \in {} |-> <<>>]] ELSE JSONError
  ELSE ScanMembers(line, 1, [k \in {} |-> <<>>])

\* raw[k].(string): the value and ok
AsString(raw, k) ==
  IF k \in DOMAIN raw /\ raw[k][1] = "string" THEN [ok |-> TRUE, s |-> raw[k][2]]
  ELSE [ok |-> FALSE, s |-> Empty]

parseJSONLine(line) ==
  LET u == Unmarshal(line)
      raw == u.raw
      t == AsString(raw, KeyTime)
  IN  IF u.err THEN [err |-> TRUE, entry |-> Entry(0, Empty, Empty, Empty, Empty, EmptyMap)]
      ELSE [err |-> FALSE,
            entry |->
              [time |-> IF t.ok THEN ParseTime(t.s).time ELSE 0,
               level |-> AsString(raw, KeyLevel).s,
               message |-> AsString(raw, KeyMsg).s,
               span |-> AsString(raw, KeySpan).s,
               parent |-> AsString(raw, KeyParent).s,
               attrs |-> [k \in (DOMAIN raw) \ KnownKeys |-> raw[k][2]]]]

isValidEntry(e) == e.level # Empty /\ e.message # Empty

\* ParseLine without the isValidEntry gate
ParseLineNoGate(res, text) ==
  LET line == TrimSpace(text)
      format == IF res.format = FormatUnknown
                THEN IF line # <<>> /\ Head(line) = "{" THEN FormatJSON ELSE FormatText
                ELSE res.format
      r == IF format = FormatJSON THEN parseJSONLine(line) ELSE parseTextLine(line)
  IN  IF line = <<>> THEN res
      ELSE IF r.err THEN [res EXCEPT !.format = format]
      ELSE [res EXCEPT !.format = format, !.entries = Append(@, r.entry)]

\* ParseLine detecting the format of every line anew
ParseLineRedetect(res, text) ==
  LET line == TrimSpace(text)
      format == IF line # <<>> /\ Head(line) = "{" THEN FormatJSON ELSE FormatText
      r == IF format = FormatJSON THEN parseJSONLine(line) ELSE parseTextLine(line)
  IN  IF line = <<>> THEN res
      ELSE IF r.err THEN [res EXCEPT !.format = format]
      ELSE IF ~isValidEntry(r.entry) THEN [res EXCEPT !.format = format]
      ELSE [res EXCEPT !.format = format, !.entries = Append(@, r.entry)]

\* one iteration of the scanner loop of Parse on the raw line text
ParseLine(res, text) ==
  LET line == TrimSpace(text)
      format == IF res.format = FormatUnknown
                THEN IF line # <<>> /\ Head(line) = "{" THEN FormatJSON ELSE FormatText
                ELSE res.format
      r == IF format = FormatJSON THEN parseJSONLine(line) ELSE parseTextLine(line)
  IN  IF line = <<>> THEN res
      ELSE IF r.err THEN [res EXCEPT !.format = format]
      ELSE IF ~isValidEntry(r.entry) THEN [res EXCEPT !.format = format]
      ELSE [res EXCEPT !.format = format, !.entries = Append(@, r.entry)]

NoResult == [entries |-> <<>>, format |-> FormatUnknown]

RECURSIVE ParseFrom(_, _, _)
ParseFrom(res, lines, i) ==
  IF i > Len(lines) THEN res ELSE ParseFrom(ParseLine(res, lines[i]), lines, i + 1)

\* the result of Parse on a reader that delivers `lines` without error
Parse(lines) == ParseFrom(NoResult, lines, 1)

\* ------------------------------------------------------------ input lines
TextStart ==
  <<"t", "i", "m", "e", "=", "2", "0", "2", "5", "-", "1", "2", "-", "0", "4", "T", "1",
     "0", ":", "0", "0", ":", "0", "0", "Z", " ", "l", "e", "v", "e", "l", "=", "I", " ",
     "m", "s", "g", "=", "\"", "m", " ", "s", "t", "a", "r", "t", "e", "d", "\"", " ", "s",
     "p", "a", "n", "=", "a">>
TextChild ==
  <<" ", " ", "l", "e", "v", "e", "l", "=", "E", " ", "m", "s", "g", "=", "h", "i", " ",
     "s", "p", "a", "n", "=", "b", " ", "p", "a", "r", "e", "n", "t", "=", "a", " ", "k",
     "=", "v", " ">>
TextNoPairs ==
  <<"n", "o", " ", "e", "q", "u", "a", "l", "s", " ", "h", "e", "r", "e">>
TextNoMsg ==
  <<"l", "e", "v", "e", "l", "=", "I", " ", "s", "p", "a", "n", "=", "a">>
TextNoLevel ==
  <<"m", "s", "g", "=", "h", "i", " ", "l", "e", "v", "e", "l", "=">>
Blank ==
  <<" ", " ">>
JSONStart ==
  <<"{", "\"", "t", "i", "m", "e", "\"", ":", "\"", "2", "0", "2", "5", "-", "1", "2", "-",
     "0", "4", "T", "1", "0", ":", "0", "0", ":", "0", "1", "Z", "\"", ",", "\"", "l", "e",
     "v", "e", "l", "\"", ":", "\"", "I", "\"", ",", "\"", "m", "s", "g", "\"", ":", "\"",
     "m", " ", "s", "t", "a", "r", "t", "e", "d", "\"", ",", "\"", "s", "p", "a", "n",
     "\"", ":", "\"", "a", "\"", "}">>
JSONChild ==
  <<"{", "\"", "l", "e", "v", "e", "l", "\"", ":", "\"", "E", "\"", ",", "\"", "m", "s",
     "g", "\"", ":", "\"", "h", "i", "\"", ",", "\"", "s", "p", "a", "n", "\"", ":", "\"",
     "b", "\"", ",", "\"", "p", "a", "r", "e", "n", "t", "\"", ":", "\"", "a", "\"", ",",
     "\"", "n", "\"", ":", "4", "2", "}">>
JSONNoMsg ==
  <<"{", "\"", "l", "e", "v", "e", "l", "\"", ":", "\"", "I", "\"", "}">>
JSONCut ==
  <<"{", "\"", "l", "e", "v", "e", "l", "\"", ":", "\"", "I", "\"", ",", "\"", "m", "s",
     "g", "\"", ":">>
JSONNoLevel ==
  <<"{", "\"", "l", "e", "v", "e", "l", "\"", ":", "\"", "\"", ",", "\"", "m", "s", "g",
     "\"", ":", "\"", "x", "\"", "}">>
\* a JSON object whose only value, read as text, holds a level and a message
JSONAsText ==
  <<"{", "\"", "a", "\"", ":", "\"", "b", " ", "l", "e", "v", "e", "l", "=", "I", " ",
     "m", "s", "g", "=", "x", "\"", "}">>

\* lines of one entry each that differ in the time field only: a valid
\* timestamp, a value time.Parse rejects, a JSON number, or no time field
TextTime(tv) ==
  IF tv = "valid" THEN <<"t", "i", "m", "e", "=">> \o Stamp(2) \o <<" ">>
  ELSE IF tv = "bad" THEN <<"t", "i", "m", "e", "=", "n", "o", "w", " ">>
  ELSE <<>>
JSONTime(tv) ==
  IF tv = "valid" THEN <<"\"", "t", "i", "m", "e", "\"", ":", "\"">> \o Stamp(2) \o <<"\"", ",">>
  ELSE IF tv = "bad" THEN <<"\"", "t", "i", "m", "e", "\"", ":", "\"", "n", "o", "w", "\"", ",">>
  ELSE IF tv = "number" THEN <<"\"", "t", "i", "m", "e", "\"", ":", "4", "2", ",">>
  ELSE <<>>
TextRest(r) ==
  IF r = 1 THEN
    <<"l", "e", "v", "e", "l", "=", "I", " ", "m", "s", "g", "=", "h", "i", " ", "s",
       "p", "a", "n", "=", "a">>
  ELSE
    <<"l", "e", "v", "e", "l", "=", "E", " ", "m", "s", "g", "=", "\"", "m", " ", "s",
       "t", "a", "r", "t", "e", "d", "\"", " ", "s", "p", "a", "n", "=", "b", " ", "p",
       "a", "r", "e", "n", "t", "=", "a", " ", "k", "=", "v">>
JSONRest ==
  <<"\"", "l", "e", "v", "e", "l", "\"", ":", "\"", "I", "\"", ",", "\"", "m", "s", "g",
     "\"", ":", "\"", "h", "i", "\"", ",", "\"", "s", "p", "a", "n", "\"", ":", "\"",
     "a", "\"", "}">>
TimeLineKinds ==
  {[fmt |-> FormatText, tv |-> tv, rest |-> r] : tv \in {"valid", "bad", "none"}, r \in {1, 2}}
  \cup {[fmt |-> FormatJSON, tv |-> tv, rest |-> 1] : tv \in {"valid", "bad", "number", "none"}}
TimeLine(d) ==
  IF d.fmt = FormatText THEN TextTime(d.tv) \o TextRest(d.rest)
  ELSE <<"{">> \o JSONTime(d.tv) \o JSONRest
TimeLines == {TimeLine(d) : d \in TimeLineKinds}

\* bufio.MaxScanTokenSize (64 * 1024), scaled to just above the longest other line
MaxScanTokenSize == 128

\* the scanner's buffer cannot hold the line (bufio.Scanner: ErrTooLong)
TooLong(text) == Len(text) >= MaxScanTokenSize

\* a text line with a level and a message, MaxScanTokenSize characters too many
LongLine ==
  <<"l", "e", "v", "e", "l", "=", "I", " ", "m", "s", "g", "=">> \o
  [i \in 1..MaxScanTokenSize |-> "x"]

Lines ==
  {TextStart, TextChild, TextNoPairs, TextNoMsg, TextNoLevel, Blank,
   JSONStart, JSONChild, JSONNoMsg, JSONCut, JSONNoLevel, JSONAsText, LongLine}

\* --------------------------------------------------------------- tree.go
isStartedMessage(msg) ==
  IF msg = Started THEN TRUE
  ELSE IF Len(msg) < 8 THEN FALSE
  ELSE SubSeq(msg, Len(msg) - 8 + 1, Len(msg)) = SpStarted

isCompletedMessage(msg) ==
  IF msg = Completed THEN TRUE
  ELSE IF Len(msg) < 10 THEN FALSE
  ELSE SubSeq(msg, Len(msg) - 10 + 1, Len(msg)) = SpCompleted

extractSpanName(msg) ==
  IF Len(msg) <= 8 THEN msg
  ELSE IF SubSeq(msg, Len(msg) - 8 + 1, Len(msg)) = SpStarted
       THEN SubSeq(msg, 1, Len(msg) - 8)
       ELSE msg

EmptyTree == [roots |-> <<>>, spans |-> [k \in {} |-> Empty]]

\* &Span{ID, Parent, Children: [], Entries: []}; the other fields are zero values
NewSpan(e) ==
  [id |-> e.span, name |-> Empty, parent |-> e.parent, children |-> <<>>,
   startTime |-> 0, duration |-> Empty, entries |-> <<>>]

\* GroupEntry that puts the entry in front of the span's entries
GroupEntryPrepend(spans, e) ==
  LET s0 == IF e.span \in DOMAIN spans THEN spans[e.span] ELSE NewSpan(e)
      s1 == IF s0.parent = Empty /\ e.parent # Empty
            THEN [s0 EXCEPT !.parent = e.parent] ELSE s0
      s4 == [s1 EXCEPT !.entries = <<e>> \o @]
  IN  [k \in (DOMAIN spans) \cup {e.span} |-> IF k = e.span THEN s4 ELSE spans[k]]

\* GroupEntry whose parent is the one of the latest entry that declares one
GroupEntryLastParent(spans, e) ==
  LET s0 == IF e.span \in DOMAIN spans THEN spans[e.span] ELSE NewSpan(e)
      s1 == IF e.parent # Empty THEN [s0 EXCEPT !.parent = e.parent] ELSE s0
      s4 == [s1 EXCEPT !.entries = Append(@, e)]
  IN  [k \in (DOMAIN spans) \cup {e.span} |-> IF k = e.span THEN s4 ELSE spans[k]]

\* GroupEntry that takes the duration from any entry that has the attribute
GroupEntryAnyDuration(spans, e) ==
  LET s0 == IF e.span \in DOMAIN spans THEN spans[e.span] ELSE NewSpan(e)
      s3 == IF KeyDuration \in DOMAIN e.attrs
            THEN [s0 EXCEPT !.duration = e.attrs[KeyDuration]] ELSE s0
      s4 == [s3 EXCEPT !.entries = Append(@, e)]
  IN  [k \in (DOMAIN spans) \cup {e.span} |-> IF k = e.span THEN s4 ELSE spans[k]]

\* GroupEntry that takes the start time from every start marker
GroupEntryLastStart(spans, e) ==
  LET s0 == IF e.span \in DOMAIN spans THEN spans[e.span] ELSE NewSpan(e)
      s2 == IF isStartedMessage(e.message)
            THEN [s0 EXCEPT !.name = extractSpanName(e.message), !.startTime = e.time]
            ELSE s0
      s4 == [s2 EXCEPT !.entries = Append(@, e)]
  IN  [k \in (DOMAIN spans) \cup {e.span} |-> IF k = e.span THEN s4 ELSE spans[k]]

\* the body of the pass-1 loop for one entry with a non-empty span
GroupEntry(spans, e) ==
  LET s0 == IF e.span \in DOMAIN spans THEN spans[e.span] ELSE NewSpan(e)
      s1 == IF s0.parent = Empty /\ e.parent # Empty
            THEN [s0 EXCEPT !.parent = e.parent] ELSE s0
      s2 == IF isStartedMessage(e.message)
            THEN [s1 EXCEPT !.name = extractSpanName(e.message),
                            !.startTime = IF s1.startTime = 0 THEN e.time ELSE @]
            ELSE s1
      s3 == IF isCompletedMessage(e.message) /\ KeyDuration \in DOMAIN e.attrs
            THEN [s2 EXCEPT !.duration = e.attrs[KeyDuration]] ELSE s2
      s4 == [s3 EXCEPT !.entries = Append(@, e)]
  IN  [k \in (DOMAIN spans) \cup {e.span} |-> IF k = e.span THEN s4 ELSE spans[k]]

\* Pass1 without the test for an empty span
RECURSIVE Pass1KeepSpanless(_, _, _)
Pass1KeepSpanless(spans, es, i) ==
  IF i > Len(es) THEN spans
  ELSE Pass1KeepSpanless(GroupEntry(spans, es[i]), es, i + 1)

\* pass 1: group entries by span id, entries es[i..]
RECURSIVE Pass1(_, _, _)
Pass1(spans, es, i) ==
  IF i > Len(es) THEN spans
  ELSE IF es[i].span = Empty THEN Pass1(spans, es, i + 1)
  ELSE Pass1(GroupEntry(spans, es[i]), es, i + 1)

\* LinkSpan without the orphan branch: a span whose parent is unknown is dropped
LinkSpanDropOrphan(t, id) ==
  LET span == t.spans[id]
  IN  IF span.parent = Empty
      THEN [t EXCEPT !.roots = Append(@, id)]
      ELSE IF span.parent \in DOMAIN t.spans
      THEN [t EXCEPT !.spans[span.parent].children = Append(@, id)]
      ELSE t

\* the body of the pass-2 loop for one span id
LinkSpan(t, id) ==
  LET span == t.spans[id]
  IN  IF span.parent = Empty
      THEN [t EXCEPT !.roots = Append(@, id)]
      ELSE IF span.parent \in DOMAIN t.spans
      THEN [t EXCEPT !.spans[span.parent].children = Append(@, id)]
      ELSE [t EXCEPT !.roots = Append(@, id)]

\* pass 2 over the map in the iteration order `order`
RECURSIVE Pass2(_, _, _)
Pass2(t, order, i) ==
  IF i > Len(order) THEN t ELSE Pass2(LinkSpan(t, order[i]), order, i + 1)

\* the orders in which `range tree.Spans` can visit the keys
IterationOrders(S) ==
  {o \in [1..Cardinality(S) -> S] : \A i, j \in DOMAIN o : i # j => o[i] # o[j]}

\* less function of both sort.Slice calls
Before(spans, x, y) == spans[x].startTime < spans[y].startTime

\* SortSlice that leaves the slice as it is
SortSliceAsIs(q, spans) == {q}

\* the results sort.Slice may leave: a permutation of q with no later element
\* less than an earlier one (sort.Slice is not stable)
SortSlice(q, spans) ==
  IF Len(q) <= 1 THEN {q} ELSE
  LET n == Len(q)
      bij == {p \in [1..n -> 1..n] : \A i, j \in 1..n : i # j => p[i] # p[j]}
      perms == {[i \in 1..n |-> q[p[i]]] : p \in bij}
  IN  {r \in perms : \A i, j \in 1..n : i < j => ~Before(spans, r[j], r[i])}

\* the loop over t.Spans that sorts each children list of more than one element:
\* the span maps it may leave, from the maps `maps` with the spans `ids` to go
RECURSIVE SortChildren(_, _)
SortChildren(maps, ids) ==
  IF ids = {} THEN maps
  ELSE LET s == CHOOSE x \in ids : TRUE
           step(m) == IF Len(m[s].children) > 1
                      THEN {[m EXCEPT ![s].children = c] : c \in SortSlice(m[s].children, m)}
                      ELSE {m}
       IN  SortChildren(UNION {step(m) : m \in maps}, ids \ {s})

sortByStartTime(t) ==
  {[roots |-> r, spans |-> m] :
     r \in SortSlice(t.roots, t.spans), m \in SortChildren({t.spans}, DOMAIN t.spans)}

\* every tree a call BuildTree(es) can return
BuildTree(es) ==
  IF Len(es) = 0 THEN {EmptyTree}
  ELSE LET spans == Pass1([k \in {} |-> Empty], es, 1)
       IN  UNION {sortByStartTime(Pass2([roots |-> <<>>, spans |-> spans], o, 1)) :
                    o \in IterationOrders(DOMAIN spans)}

RECURSIVE SumLogs(_, _)
SumLogs(spans, ids) ==
  IF ids = {} THEN 0
  ELSE LET s == CHOOSE x \in ids : TRUE
       IN  Len(spans[s].entries) + SumLogs(spans, ids \ {s})

\* Stats that counts one log per span
StatsOnePerSpan(t) ==
  LET occ == UNION {{<<s, i>> : i \in DOMAIN t.spans[s].entries} : s \in DOMAIN t.spans}
      lvl(o) == t.spans[o[1]].entries[o[2]].level
  IN  [totalSpans |-> Cardinality(DOMAIN t.spans),
       totalLogs |-> Cardinality(DOMAIN t.spans),
       levels |-> [l \in {lvl(o) : o \in occ} |-> Cardinality({o \in occ : lvl(o) = l})],
       called |-> FALSE]

Stats(t) ==
  LET occ == UNION {{<<s, i>> : i \in DOMAIN t.spans[s].entries} : s \in DOMAIN t.spans}
      lvl(o) == t.spans[o[1]].entries[o[2]].level
  IN  [totalSpans |-> Cardinality(DOMAIN t.spans),
       totalLogs |-> SumLogs(t.spans, DOMAIN t.spans),
       levels |-> [l \in {lvl(o) : o \in occ} |-> Cardinality({o \in occ : lvl(o) = l})],
       called |-> FALSE]

\* ------------------------------------------------------------ drillog.go
\* slog levels and their names in the output
LevelDebug == <<"D", "E", "B", "U", "G">>
LevelINFO == <<"I", "N", "F", "O">>
LevelWarn == <<"W", "A", "R", "N">>
LevelERROR == <<"E", "R", "R", "O", "R">>
LevelRank(l) ==
  CASE l = LevelDebug -> 0 [] l = LevelINFO -> 1 [] l = LevelWarn -> 2 [] l = LevelERROR -> 3

\* the span names passed to Start
NameM == <<"m">>
NameN == <<"n">>

\* the ids the IDGenerator returns, call after call: pairwise distinct
GeneratedIDs == <<A, B, Cc, X, <<"e">>, <<"f">>>>

\* a context.Context: context.Background(), or one carrying a *spanInfo
Background == [has |-> FALSE, spanID |-> Empty, parentID |-> Empty]
WithSpanInfo(id, parent) == [has |-> TRUE, spanID |-> id, parentID |-> parent]

\* SpanID(ctx) and ParentID(ctx)
SpanID(ctx) == IF ctx.has THEN ctx.spanID ELSE Empty
ParentID(ctx) == IF ctx.has THEN ctx.parentID ELSE Empty

\* args ..., key, value
Arg(k, v) == <<<<k, v>>>>

\* the span attributes of a context, as added by hand or by Handler.Handle
SpanArgs(id, parent) ==
  IF parent # Empty THEN Arg(KeySpan, id) \o Arg(KeyParent, parent) ELSE Arg(KeySpan, id)
HandlerAttrs(ctx) == IF ctx.has THEN SpanArgs(ctx.spanID, ctx.parentID) ELSE <<>>

\* logger.Log(ctx, level, msg, args...) on the logger getSlogLogger returned: the
\* records written, none below the minimum level INFO; slog.New(h) passes through
\* Handler.Handle, slog.Default() does not
LoggerLog(logger, ctx, level, msg, args, origin) ==
  IF LevelRank(level) < LevelRank(LevelINFO) THEN <<>>
  ELSE <<[fmt |-> logger, level |-> level, msg |-> msg, origin |-> origin,
          attrs |-> IF logger = "none" THEN args ELSE args \o HandlerAttrs(ctx)]>>

\* an attribute of a written record, empty when it has none of that key
AttrOf(rec, key) ==
  IF \E i \in DOMAIN rec.attrs : rec.attrs[i][1] = key
  THEN rec.attrs[CHOOSE i \in DOMAIN rec.attrs : rec.attrs[i][1] = key][2]
  ELSE Empty

\* Start with the parent id taken from the parent's parent
StartFromParentID(l, c, name) ==
  LET ctx == IF c = 0 THEN Background ELSE l.ctxs[c]
      spanID == GeneratedIDs[l.nextID]
      parentID == ParentID(ctx)
      info == WithSpanInfo(spanID, parentID)
      call == Len(l.calls) + 1
      args == IF l.handler # "none" THEN <<>> ELSE SpanArgs(spanID, parentID)
  IN  [l EXCEPT
         !.nextID = @ + 1,
         !.ctxs = Append(@, info),
         !.open = Append(@, [name |-> name, ctx |-> Len(l.ctxs) + 1, logger |-> l.handler,
                             spanID |-> spanID, parentID |-> parentID, call |-> call]),
         !.out = @ \o LoggerLog(l.handler, info, LevelINFO, name \o SpStarted, args,
                                [op |-> "start", call |-> call]),
         !.calls = Append(@, [ctxIn |-> c, ctxInValue |-> ctx, name |-> name,
                              id |-> spanID, ctxOut |-> Len(l.ctxs) + 1])]

\* Start(ctx, name): c is the number of the context passed, 0 for nil; the new
\* context is added to those the program holds, and the end closure to those open
Start(l, c, name) ==
  LET ctx == IF c = 0 THEN Background ELSE l.ctxs[c]
      spanID == GeneratedIDs[l.nextID]
      parentID == SpanID(ctx)
      info == WithSpanInfo(spanID, parentID)
      call == Len(l.calls) + 1
      args == IF l.handler # "none" THEN <<>> ELSE SpanArgs(spanID, parentID)
  IN  [l EXCEPT
         !.nextID = @ + 1,
         !.ctxs = Append(@, info),
         !.open = Append(@, [name |-> name, ctx |-> Len(l.ctxs) + 1, logger |-> l.handler,
                             spanID |-> spanID, parentID |-> parentID, call |-> call]),
         !.out = @ \o LoggerLog(l.handler, info, LevelINFO, name \o SpStarted, args,
                                [op |-> "start", call |-> call]),
         !.calls = Append(@, [ctxIn |-> c, ctxInValue |-> ctx, name |-> name,
                              id |-> spanID, ctxOut |-> Len(l.ctxs) + 1])]

\* the end closure of the innermost open span
End(l) ==
  LET cl == l.open[Len(l.open)]
      duration == Arg(KeyDuration, Dur5)
      args == IF l.handler # "none" THEN duration
              ELSE duration \o SpanArgs(cl.spanID, cl.parentID)
  IN  [l EXCEPT
         !.open = SubSeq(@, 1, Len(@) - 1),
         !.out = @ \o LoggerLog(cl.logger, l.ctxs[cl.ctx], LevelINFO,
                                cl.name \o SpCompleted, args,
                                [op |-> "end", call |-> cl.call])]

\* log(ctx, level, msg) behind Debug, Info, Warn and Error; a call below the
\* minimum level returns at once; the record's origin names the context passed
Log(l, c, level, msg) ==
  LET ctx == l.ctxs[c]
      args == IF l.handler = "none" THEN HandlerAttrs(ctx) ELSE <<>>
  IN  IF LoggerLog(l.handler, ctx, level, msg, args, [op |-> "log", call |-> c]) = <<>>
      THEN l
      ELSE [l EXCEPT
              !.logs = @ + 1,
              !.out = @ \o LoggerLog(l.handler, ctx, level, msg, args,
                                     [op |-> "log", call |-> c])]

\* slog.TextHandler: key=value pairs, a value quoted when it needs it
RECURSIVE EscapeFrom(_)
EscapeFrom(v) ==
  IF v = <<>> THEN <<>>
  ELSE (IF Head(v) \in {"\"", "\\"} THEN <<"\\", Head(v)>> ELSE <<Head(v)>>)
         \o EscapeFrom(Tail(v))
Quote(v) == <<"\"">> \o EscapeFrom(v) \o <<"\"">>
needsQuoting(v) == v = <<>> \/ \E i \in DOMAIN v : v[i] \in {" ", "=", "\""}
TextPair(k, v) == k \o <<"=">> \o (IF needsQuoting(v) THEN Quote(v) ELSE v)
RECURSIVE TextAttrs(_)
TextAttrs(attrs) ==
  IF attrs = <<>> THEN <<>>
  ELSE <<" ">> \o TextPair(Head(attrs)[1], Head(attrs)[2]) \o TextAttrs(Tail(attrs))
TextLine(rec, t) ==
  TextPair(KeyTime, Stamp(t)) \o <<" ">> \o TextPair(KeyLevel, rec.level) \o <<" ">>
    \o TextPair(KeyMsg, rec.msg) \o TextAttrs(rec.attrs)

\* slog.JSONHandler: one object of string members
JSONPair(k, v) == Quote(k) \o <<":">> \o Quote(v)
RECURSIVE JSONAttrs(_)
JSONAttrs(attrs) ==
  IF attrs = <<>> THEN <<>>
  ELSE <<",">> \o JSONPair(Head(attrs)[1], Head(attrs)[2]) \o JSONAttrs(Tail(attrs))
JSONLine(rec, t) ==
  <<"{">> \o JSONPair(KeyTime, Stamp(t)) \o <<",">> \o JSONPair(KeyLevel, rec.level)
    \o <<",">> \o JSONPair(KeyMsg, rec.msg) \o JSONAttrs(rec.attrs) \o <<"}">>

\* the line a handler writes for its k-th record, at instant k
FormatRecord(rec, k) == IF rec.fmt = "json" THEN JSONLine(rec, k) ELSE TextLine(rec, k)

\* ------------------------------------------------------------ server.go
\* the JSON text json.NewEncoder writes, as a value: a string, a number, null, an
\* array, or an object, which is a function from the keys present to their values
JStr(v) == <<"string", v>>
JNum(n) == <<"number", n>>
JNull == <<"null">>
JArr(q) == <<"array", q>>
JObj(f) == <<"object", f>>

\* a Go slice or map value: nil, or the elements it holds
Made(v) == [isNil |-> FALSE, elems |-> v]
NilValue == [isNil |-> TRUE, elems |-> <<>>]

\* if x == nil { x = []string{} }  and  if x == nil { x = make(map...) }
OrEmptySlice(x) == IF x.isNil THEN Made(<<>>) ELSE x
OrEmptyMap(x) == IF x.isNil THEN Made(EmptyMap) ELSE x

\* json encoding of a []string, a map[string]string and a map[string]int
MarshalStrings(x) ==
  IF x.isNil THEN JNull ELSE JArr([i \in DOMAIN x.elems |-> JStr(x.elems[i])])
MarshalStringMap(x) ==
  IF x.isNil THEN JNull ELSE JObj([k \in DOMAIN x.elems |-> JStr(x.elems[k])])
MarshalIntMap(x) ==
  IF x.isNil THEN JNull ELSE JObj([k \in DOMAIN x.elems |-> JNum(x.elems[k])])

\* t.Format("2006-01-02T15:04:05.999Z07:00") behind !t.IsZero()
FormatTime(t) == IF t = 0 THEN Empty ELSE Stamp(t)

\* strings.ToLower on ASCII letters
UpperCase == <<"A", "B", "C", "D", "E", "F", "G", "H", "I", "J", "K", "L", "M", "N", "O",
               "P", "Q", "R", "S", "T", "U", "V", "W", "X", "Y", "Z">>
LowerCase == <<"a", "b", "c", "d", "e", "f", "g", "h", "i", "j", "k", "l", "m", "n", "o",
               "p", "q", "r", "s", "t", "u", "v", "w", "x", "y", "z">>
LowerChar(c) ==
  IF \E i \in DOMAIN UpperCase : UpperCase[i] = c
  THEN LowerCase[CHOOSE i \in DOMAIN UpperCase : UpperCase[i] = c]
  ELSE c
ToLower(v) == [i \in DOMAIN v |-> LowerChar(v[i])]

\* strings.Contains
Contains(v, sub) ==
  \E i \in 0..Len(v) : i + Len(sub) <= Len(v) /\ SubSeq(v, i + 1, i + Len(sub)) = sub

\* matchesQuery comparing the text as written
matchesQueryAsWritten(e, query) ==
  \/ Contains(e.message, query)
  \/ \E k \in DOMAIN e.attrs : Contains(e.attrs[k], query)

\* matchesQuery, query already lower-cased
matchesQuery(e, query) ==
  \/ Contains(ToLower(e.message), query)
  \/ \E k \in DOMAIN e.attrs : Contains(ToLower(e.attrs[k]), query)

\* the SpanResponse handleTree builds for a span
SpanResponseChildrenAsIs(span) ==
  [id |-> span.id, name |-> span.name, parent |-> span.parent,
   children |-> IF span.children = <<>> THEN NilValue ELSE Made(span.children),
   startTime |-> FormatTime(span.startTime), duration |-> span.duration,
   logCount |-> Len(span.entries)]

SpanResponse(span) ==
  [id |-> span.id, name |-> span.name, parent |-> span.parent,
   children |-> OrEmptySlice(Made(span.children)),
   startTime |-> FormatTime(span.startTime), duration |-> span.duration,
   logCount |-> Len(span.entries)]

\* the struct tags of SpanResponse: parent, startTime and duration are omitempty
MarshalSpan(sr) ==
  LET keys == {"id", "name", "children", "logCount"}
                \cup (IF sr.parent # Empty THEN {"parent"} ELSE {})
                \cup (IF sr.startTime # Empty THEN {"startTime"} ELSE {})
                \cup (IF sr.duration # Empty THEN {"duration"} ELSE {})
  IN  JObj([k \in keys |->
             CASE k = "id" -> JStr(sr.id)
               [] k = "name" -> JStr(sr.name)
               [] k = "parent" -> JStr(sr.parent)
               [] k = "children" -> MarshalStrings(sr.children)
               [] k = "startTime" -> JStr(sr.startTime)
               [] k = "duration" -> JStr(sr.duration)
               [] k = "logCount" -> JNum(sr.logCount)])

\* the LogEntry handleLogs and handleSearch build for an entry
LogEntry(e) ==
  [time |-> FormatTime(e.time), level |-> e.level, message |-> e.message,
   span |-> e.span, parent |-> e.parent,
   attrs |-> IF Cardinality(DOMAIN e.attrs) > 0 THEN Made(e.attrs) ELSE NilValue]

\* the struct tags of LogEntry: parent and attrs are omitempty
MarshalLogEntry(le) ==
  LET keys == {"time", "level", "message", "span"}
                \cup (IF le.parent # Empty THEN {"parent"} ELSE {})
                \cup (IF ~le.attrs.isNil /\ DOMAIN le.attrs.elems # {} THEN {"attrs"} ELSE {})
  IN  JObj([k \in keys |->
             CASE k = "time" -> JStr(le.time)
               [] k = "level" -> JStr(le.level)
               [] k = "message" -> JStr(le.message)
               [] k = "span" -> JStr(le.span)
               [] k = "parent" -> JStr(le.parent)
               [] k = "attrs" -> MarshalStringMap(le.attrs)])

MarshalLogEntries(x) ==
  IF x.isNil THEN JNull ELSE JArr([i \in DOMAIN x.elems |-> MarshalLogEntry(x.elems[i])])

\* http.Error(w, msg, code)  and  s.writeJSON(w, resp)
HTTPError(code, msg) == [status |-> code, error |-> msg, body |-> JNull]
WriteJSON(v) == [status |-> 200, error |-> "", body |-> v]

\* handleTree
handleTree(t, method) ==
  IF method # "GET" THEN HTTPError(405, "method not allowed")
  ELSE WriteJSON(JObj([k \in {"roots", "spans"} |->
         IF k = "roots" THEN MarshalStrings(OrEmptySlice(Made(t.roots)))
         ELSE JObj([id \in DOMAIN t.spans |-> MarshalSpan(SpanResponse(t.spans[id]))])]))

\* handleLogs looking the span id up before anything else
handleLogsLookupFirst(t, method, spanID) ==
  IF method # "GET" THEN HTTPError(405, "method not allowed")
  ELSE IF spanID \notin DOMAIN t.spans THEN HTTPError(404, "span not found")
  ELSE LET es == t.spans[spanID].entries
           logs == Made([i \in DOMAIN es |-> LogEntry(es[i])])
       IN  WriteJSON(JObj([k \in {"logs"} |-> MarshalLogEntries(logs)]))

\* handleLogs
handleLogs(t, method, spanID) ==
  IF method # "GET" THEN HTTPError(405, "method not allowed")
  ELSE IF spanID = Empty THEN HTTPError(400, "span parameter required")
  ELSE IF spanID \notin DOMAIN t.spans THEN HTTPError(404, "span not found")
  ELSE LET es == t.spans[spanID].entries
           logs == Made([i \in DOMAIN es |-> LogEntry(es[i])])
       IN  WriteJSON(JObj([k \in {"logs"} |-> MarshalLogEntries(logs)]))

\* handleStats
handleStats(t, method) ==
  IF method # "GET" THEN HTTPError(405, "method not allowed")
  ELSE LET st == Stats(t)
       IN  WriteJSON(JObj([k \in {"totalSpans", "totalLogs", "levels"} |->
             CASE k = "totalSpans" -> JNum(st.totalSpans)
               [] k = "totalLogs" -> JNum(st.totalLogs)
               [] k = "levels" -> MarshalIntMap(OrEmptyMap(Made(st.levels)))]))

\* handleSearch
handleSearch(es, method, q) ==
  IF method # "GET" THEN HTTPError(405, "method not allowed")
  ELSE IF q = Empty THEN HTTPError(400, "q parameter required")
  ELSE LET query == ToLower(q)
           hits == SelectSeq(es, LAMBDA e : matchesQuery(e, query))
           matches == Made([i \in DOMAIN hits |-> LogEntry(hits[i])])
       IN  WriteJSON(JObj([k \in {"matches", "total"} |->
             IF k = "matches" THEN MarshalLogEntries(matches)
             ELSE JNum(Len(matches.elems))]))

\* ------------------------------------------------------------ inputs
MsgWorkCap == <<"W", "o", "r", "k">>
MsgOk == <<"o", "k">>
KeyK == <<"k">>
ValOK == <<"O", "K">>
QueryUpper == <<"W", "O", "R", "K">>
QueryMixed == <<"O", "k">>
QueryNone == <<"z", "z">>

\* entries of two spans and of none, with and without a timestamp, a parent, a
\* duration and attributes, in mixed case
ServeEntries ==
  { Entry(1, LevelInfo, MsgWorkCap \o SpStarted, A, Empty, EmptyMap),
    Entry(0, LevelError, MsgWork, B, A, Put(EmptyMap, KeyK, ValOK)),
    Entry(2, LevelInfo, MsgDoneM, A, Empty, Put(EmptyMap, KeyDuration, Dur5)),
    Entry(1, LevelError, MsgOk, Empty, Empty, EmptyMap) }

\* the requests: every endpoint by GET with each argument, and by POST
Requests ==
  {[kind |-> k, method |-> m, arg |-> Empty] : k \in {"tree", "stats"}, m \in {"GET", "POST"}}
  \cup {[kind |-> "logs", method |-> "GET", arg |-> a] : a \in {Empty, A, B, X}}
  \cup {[kind |-> "search", method |-> "GET", arg |-> a] :
          a \in {Empty, QueryMixed, QueryUpper, QueryNone}}
  \cup {[kind |-> k, method |-> "POST", arg |-> A] : k \in {"logs", "search"}}

ListsOver(D) == UNION {[1..n -> D] : n \in 0..MaxEntries}

\* entries that differ in span and declared parent only
LinkEntries ==
  {Entry(0, LevelInfo, MsgWork, s, p, EmptyMap) : s \in {A, B, Cc}, p \in {Empty, A, B, Cc, X}}

\* start markers that differ in span, parent and timestamp
OrderEntries ==
  {Entry(t, LevelInfo, MsgStartM, s, p, EmptyMap) :
     t \in 0..MaxTime, s \in {A, B, Cc}, p \in {Empty, A}}

\* entries with and without a span, of two levels
GroupEntries ==
  {Entry(0, l, MsgWork, s, p, EmptyMap) :
     l \in {LevelInfo, LevelError}, s \in {Empty, A, B}, p \in {Empty, A}}

\* entries of two spans with start markers of two names and without one
NameEntries ==
  {Entry(0, LevelInfo, m, s, Empty, EmptyMap) :
     m \in {MsgStartM, MsgStartN, MsgWork}, s \in {A, B}}

\* completion markers and other entries, with and without a duration attribute
DurationEntries ==
  {Entry(0, LevelInfo, m, s, Empty, a) :
     m \in {MsgDoneM, MsgWork}, s \in {A, B},
     a \in {EmptyMap, Put(EmptyMap, KeyDuration, Dur5), Put(EmptyMap, KeyDuration, Dur9)}}
  \cup {Entry(0, LevelInfo, Completed, A, Empty, Put(EmptyMap, KeyDuration, Dur9))}

\* timestamped entries whose messages are start markers of prefixes of length
\* zero and one, the bare marker, and two messages that are no markers
MarkerEntries ==
  {Entry(1, LevelInfo, m, s, Empty, EmptyMap) :
     m \in {SpStarted, Started, MsgStartM, <<"x">> \o Started, MsgWork}, s \in {A, B}}

\* start markers and other entries of two spans, with and without a timestamp
StartEntries ==
  {Entry(t, LevelInfo, m, s, Empty, EmptyMap) :
     t \in 0..MaxTime, m \in {MsgStartM, MsgWork}, s \in {A, B}}

InputsOver(D) == UNION {[1..n -> D] : n \in 0..MaxLines}

\* lines over the characters the tokenizer tells apart, and one other
MaxLine == 5
ScanChars == {" ", "=", "\"", "\\", "k"}
ScanLines == UNION {[1..n -> ScanChars] : n \in 0..MaxLine}

\* values of up to MaxValue characters; the value between double quotes with a
\* backslash before each '"' and each backslash; lines key="..." with such a
\* value, alone or followed by more tokens
MaxValue == 3
ValueChars == {" ", "=", "\"", "\\", "n"}
Values == UNION {[1..n -> ValueChars] : n \in 0..MaxValue}
RECURSIVE Escaped(_)
Escaped(v) ==
  IF v = <<>> THEN <<>>
  ELSE (IF Head(v) \in {"\"", "\\"} THEN <<"\\", Head(v)>> ELSE <<Head(v)>>) \o Escaped(Tail(v))
Tails == {<<>>, <<" ", "b", "=", "c">>, <<" ", "x", " ", "b", "=", "\"", "c", "\"">>}
QuoteLine(v, tail) == <<"k", "=", "\"">> \o Escaped(v) \o <<"\"">> \o tail
QuoteKinds == {[v |-> v, tail |-> t] : v \in Values, t \in Tails}
QuoteLines == {QuoteLine(d.v, d.tail) : d \in QuoteKinds}

\* the error Parse returns: none, the reader's error, or bufio.ErrTooLong
NoError == "nil"
ErrRead == "read error"
ErrTooLong == "bufio.Scanner: token too long"

\* parseKeyValuePairs not called; its locals on entry for the line
NoScan == [line |-> <<>>, i |-> 0, result |-> EmptyMap, prev |-> EmptyMap, kind |-> "none",
           from |-> 0, to |-> 0, skips |-> <<>>, out |-> <<>>]
ScanOf(line) == [NoScan EXCEPT !.line = line]

\* no request served yet; no library call made yet
NoRequest == [kind |-> "none", method |-> "", arg |-> Empty]
NoResponse == [status |-> 0, error |-> "", body |-> JNull]
NoHTTP == [req |-> NoRequest, resp |-> NoResponse, memo |-> <<>>]
NoLib == [handler |-> "none", nextID |-> 1, ctxs |-> <<Background>>, open |-> <<>>,
          out |-> <<>>, calls |-> <<>>, logs |-> 0]

NoStats == [totalSpans |-> 0, totalLogs |-> 0, levels |-> [k \in {} |-> 0], called |-> FALSE]

InitWith(D) ==
  /\ input = <<>>
  /\ parseOut = NoResult
  /\ perr = NoError
  /\ http = NoHTTP
  /\ lib = NoLib
  /\ phase = "parsed"
  /\ entries \in ListsOver(D)
  /\ tree = EmptyTree
  /\ prevTree = EmptyTree
  /\ stats = NoStats
  /\ scan = NoScan

InitServe == InitWith(ServeEntries)
InitName == InitWith(NameEntries)
\* a program that has set a default handler, or none, and made no call yet
InitApp(handlers) ==
  /\ input = <<>>
  /\ parseOut = NoResult
  /\ perr = NoError
  /\ http = NoHTTP
  /\ lib \in {[NoLib EXCEPT !.handler = h] : h \in handlers}
  /\ phase = "app"
  /\ entries = <<>>
  /\ tree = EmptyTree
  /\ prevTree = EmptyTree
  /\ stats = NoStats
  /\ scan = NoScan

InitLib == InitApp({"none", "text"})
InitEndToEnd == InitApp({"text", "json"})
InitDuration == InitWith(DurationEntries)
InitMarker == InitWith(MarkerEntries)
InitStart == InitWith(StartEntries)
InitLink == InitWith(LinkEntries)
InitOrder == InitWith(OrderEntries)
InitGroup == InitWith(GroupEntries)

\* a stream of lines drawn from L, nothing read yet
InitInput(L) ==
  /\ input \in InputsOver(L)
  /\ parseOut = NoResult
  /\ perr = NoError
  /\ http = NoHTTP
  /\ lib = NoLib
  /\ phase = "start"
  /\ entries = <<>>
  /\ tree = EmptyTree
  /\ prevTree = EmptyTree
  /\ stats = NoStats
  /\ scan = NoScan

\* a call parseKeyValuePairs(line) with a line of L, before its first iteration
InitCall(L) ==
  /\ input = <<>>
  /\ parseOut = NoResult
  /\ perr = NoError
  /\ http = NoHTTP
  /\ lib = NoLib
  /\ phase = "scan"
  /\ entries = <<>>
  /\ tree = EmptyTree
  /\ prevTree = EmptyTree
  /\ stats = NoStats
  /\ scan \in {ScanOf(l) : l \in L}

InitScan == InitCall(ScanLines)
InitQuote == InitCall(QuoteLines)
InitTime == InitInput(TimeLines)

InitParse ==
  /\ input \in InputsOver(Lines)
  /\ parseOut = NoResult
  /\ perr = NoError
  /\ http = NoHTTP
  /\ lib = NoLib
  /\ phase = "start"
  /\ entries = <<>>
  /\ tree = EmptyTree
  /\ prevTree = EmptyTree
  /\ stats = NoStats
  /\ scan = NoScan

\* ------------------------------------------------------------ actions
\* result, err := Parse(r) with err == nil; entries := result.Entries
RunParse ==
  /\ phase = "start"
  /\ \A i \in DOMAIN input : ~TooLong(input[i])
  /\ parseOut' = Parse(input)
  /\ entries' = Parse(input).entries
  /\ phase' = "parsed"
  /\ UNCHANGED <<input, perr, tree, prevTree, stats, http, lib, scan>>

\* scanner.Scan() stops at a line that does not fit the scanner's buffer and
\* scanner.Err() is bufio.ErrTooLong: Parse returns nil and the error
ParseTooLong ==
  /\ phase = "start"
  /\ \E i \in DOMAIN input : TooLong(input[i])
  /\ parseOut' = NoResult
  /\ perr' = ErrTooLong
  /\ phase' = "failed"
  /\ UNCHANGED <<input, entries, tree, prevTree, stats, http, lib, scan>>

\* the reader fails and scanner.Err() != nil: Parse returns nil and the error
ParseReadError ==
  /\ phase = "start"
  /\ parseOut' = NoResult
  /\ perr' = ErrRead
  /\ phase' = "failed"
  /\ UNCHANGED <<input, entries, tree, prevTree, stats, http, lib, scan>>

\* tree := BuildTree(entries); a second call rebuilds from the same entries
Build ==
  /\ phase \in {"parsed", "built"}
  /\ tree' \in BuildTree(entries)
  /\ prevTree' = tree
  /\ phase' = IF phase = "parsed" THEN "built" ELSE "rebuilt"
  /\ stats' = NoStats
  /\ UNCHANGED <<input, parseOut, perr, entries, http, lib, scan>>

\* stats := tree.Stats()
CallStats ==
  /\ phase \in {"built", "rebuilt"}
  /\ stats' = [Stats(tree) EXCEPT !.called = TRUE]
  /\ UNCHANGED <<input, parseOut, perr, phase, entries, tree, prevTree, http, lib, scan>>

\* the first exchange of the server, once a later request arrives
FirstExchange ==
  IF http.memo = <<>> /\ http.req # NoRequest THEN <<http.req, http.resp>> ELSE http.memo

\* one request served by the mux: the response is written; the request and the
\* response are observed, and the first exchange of the server is remembered
Serve(rq, rs) ==
  /\ phase \in {"built", "rebuilt", "serving"}
  /\ phase' = "serving"
  /\ http' = [req |-> rq, resp |-> rs, memo |-> FirstExchange]
  /\ UNCHANGED <<input, parseOut, perr, entries, tree, prevTree, stats, lib, scan>>

HandleTree ==
  \E rq \in Requests : rq.kind = "tree" /\ Serve(rq, handleTree(tree, rq.method))

HandleLogs ==
  \E rq \in Requests : rq.kind = "logs" /\ Serve(rq, handleLogs(tree, rq.method, rq.arg))

HandleStats ==
  \E rq \in Requests : rq.kind = "stats" /\ Serve(rq, handleStats(tree, rq.method))

\* handleSearch lower-casing the messages of s.entries in place
HandleSearchInPlace ==
  \E rq \in Requests :
    /\ rq.kind = "search"
    /\ phase \in {"built", "rebuilt", "serving"}
    /\ phase' = "serving"
    /\ entries' = [i \in DOMAIN entries |->
                     [entries[i] EXCEPT !.message = ToLower(@)]]
    /\ http' = [req |-> rq, resp |-> handleSearch(entries', rq.method, rq.arg),
                memo |-> FirstExchange]
    /\ UNCHANGED <<input, parseOut, perr, tree, prevTree, stats, lib, scan>>

HandleSearch ==
  \E rq \in Requests :
    rq.kind = "search" /\ Serve(rq, handleSearch(entries, rq.method, rq.arg))

\* the contexts the program passes on: the background and those of the open spans
HeldContexts == {1} \cup {lib.open[i].ctx : i \in DOMAIN lib.open}

\* ctx, end := drillog.Start(ctx, name)
LibStart ==
  \E c \in {0} \cup HeldContexts, name \in {NameM, NameN} :
    /\ phase = "app"
    /\ lib.nextID <= MaxSpans
    /\ lib' = Start(lib, c, name)
    /\ UNCHANGED <<input, parseOut, perr, phase, entries, tree, prevTree, stats, http, scan>>

\* end()
LibEnd ==
  /\ phase = "app"
  /\ lib.open # <<>>
  /\ lib' = End(lib)
  /\ UNCHANGED <<input, parseOut, perr, phase, entries, tree, prevTree, stats, http, scan>>

\* drillog.Debug, Info, Warn, Error(ctx, msg)
LibLog ==
  \E c \in HeldContexts,
     call \in {<<LevelDebug, MsgWork>>, <<LevelINFO, MsgStartN>>, <<LevelWarn, MsgWork>>} :
    /\ phase = "app"
    /\ lib.logs < MaxLogs
    /\ lib' = Log(lib, c, call[1], call[2])
    /\ UNCHANGED <<input, parseOut, perr, phase, entries, tree, prevTree, stats, http, scan>>

\* drillog.SetDefault(h), with a handler or with nil, between two other calls
LibSetDefault ==
  \E h \in {"none", "text"} :
    /\ phase = "app"
    /\ h # lib.handler
    /\ lib' = [lib EXCEPT !.handler = h]
    /\ UNCHANGED <<input, parseOut, perr, phase, entries, tree, prevTree, stats, http, scan>>

\* every span is ended: the lines written so far are the viewer's input
Capture ==
  /\ phase = "app"
  /\ lib.open = <<>>
  /\ lib.calls # <<>>
  /\ input' = [k \in DOMAIN lib.out |-> FormatRecord(lib.out[k], k)]
  /\ phase' = "start"
  /\ UNCHANGED <<parseOut, perr, entries, tree, prevTree, stats, http, lib, scan>>

\* one iteration of `for i < n` in parseKeyValuePairs
ScanStep ==
  /\ phase = "scan"
  /\ scan.out = <<>>
  /\ scan.i < Len(scan.line)
  /\ LET r == ScanIter(scan.line, scan.i, scan.result)
     IN  scan' = [scan EXCEPT !.i = r.i, !.result = r.result, !.prev = scan.result,
                              !.kind = r.kind, !.from = r.from, !.to = r.to,
                              !.skips = IF r.kind = "skip" THEN Append(@, <<r.from, r.to>>)
                                        ELSE @]
  /\ UNCHANGED <<input, parseOut, perr, phase, entries, tree, prevTree, stats, http, lib>>

\* the loop is left (i >= n, or a break, which happens only with i >= n):
\* return result, nil
ScanReturn ==
  /\ phase = "scan"
  /\ scan.out = <<>>
  /\ scan.i >= Len(scan.line)
  /\ scan' = [scan EXCEPT !.out = <<scan.result, NoError>>]
  /\ UNCHANGED <<input, parseOut, perr, phase, entries, tree, prevTree, stats, http, lib>>

NextTree == Build \/ CallStats
NextLib == LibStart \/ LibEnd \/ LibLog
NextDefault == LibStart \/ LibEnd \/ LibLog \/ LibSetDefault
NextEndToEnd == LibStart \/ LibEnd \/ LibLog \/ Capture \/ RunParse \/ Build
NextServe == Build \/ HandleTree \/ HandleLogs \/ HandleStats \/ HandleSearch

NextParse == RunParse \/ ParseTooLong \/ ParseReadError
NextRead == RunParse \/ ParseReadError
NextScan == ScanStep \/ ScanReturn
Next == RunParse \/ ParseTooLong \/ ParseReadError \/ Build \/ CallStats

Spec == InitParse /\ [][Next]_vars
SpecParse == InitParse /\ [][NextParse]_vars
SpecServe == InitServe /\ [][NextServe]_vars
SpecName == InitName /\ [][NextTree]_vars
SpecLib == InitLib /\ [][NextLib]_vars
SpecEndToEnd == InitEndToEnd /\ [][NextEndToEnd]_vars
SpecLink == InitLink /\ [][NextTree]_vars
SpecOrder == InitOrder /\ [][NextTree]_vars
SpecDuration == InitDuration /\ [][NextTree]_vars
SpecMarker == InitMarker /\ [][NextTree]_vars
SpecTime == InitTime /\ [][NextRead]_vars
SpecScan == InitScan /\ [][NextScan]_vars
\* the call runs on one goroutine until it returns: a step that can be taken is taken
SpecScanFair == InitScan /\ [][NextScan]_vars /\ WF_vars(NextScan)
SpecQuote == InitQuote /\ [][NextScan]_vars
SpecDefault == InitLib /\ [][NextDefault]_vars
SpecStart == InitStart /\ [][NextTree]_vars
SpecGroup == InitGroup /\ [][NextTree]_vars

\* ------------------------------------------------------------ claims
Built == phase \in {"built", "rebuilt"}
SpanIds == DOMAIN tree.spans

\* number of positions of the list q that hold x
Occ(q, x) == Cardinality({i \in DOMAIN q : q[i] = x})

\* the spans whose children list holds s
Holders(s) == {p \in SpanIds : Occ(tree.spans[p].children, s) > 0}

\* the list with the entries of an empty span removed
WithSpan(es) == SelectSeq(es, LAMBDA e : e.span # Empty)

\* the parent of the earliest input entry of span s that declares one
DeclaredParent(s) ==
  LET idx == {i \in DOMAIN entries : entries[i].span = s /\ entries[i].parent # Empty}
  IN  IF idx = {} THEN Empty
      ELSE entries[CHOOSE i \in idx : \A j \in idx : i <= j].parent

\* C1: after BuildTree every span id occurs exactly once across roots and all
\* children lists: once in roots, or once in the children of exactly one other span.
C1_ExactlyOnePlace ==
  Built =>
    \A s \in SpanIds :
      \/ Occ(tree.roots, s) = 1 /\ Holders(s) = {}
      \/ /\ Occ(tree.roots, s) = 0
         /\ \E p \in SpanIds \ {s} :
              Holders(s) = {p} /\ Occ(tree.spans[p].children, s) = 1

\* following parent links from s for at most k steps reaches a span listed in roots
RECURSIVE ReachesRoot(_, _)
ReachesRoot(s, k) ==
  IF Occ(tree.roots, s) > 0 THEN TRUE
  ELSE IF k = 0 \/ tree.spans[s].parent \notin SpanIds THEN FALSE
  ELSE ReachesRoot(tree.spans[s].parent, k - 1)

\* the spans reachable from the set R through children lists
RECURSIVE Descendants(_)
Descendants(R) ==
  LET more == R \cup {c \in SpanIds : \E p \in R \cap SpanIds : Occ(tree.spans[p].children, c) > 0}
  IN  IF more = R THEN R ELSE Descendants(more)

\* C2: whatever parents the entries declare, following parent links from any span
\* reaches a root within |spans| steps, i.e. every span is reachable from a root
\* through children lists.
C2_EverySpanUnderARoot ==
  Built =>
    /\ \A s \in SpanIds : ReachesRoot(s, Cardinality(SpanIds))
    /\ SpanIds \subseteq Descendants({tree.roots[i] : i \in DOMAIN tree.roots})

\* C3: no span has its own id in its children list, also when an entry declares
\* its own span id as parent.
C3_NoSelfChild ==
  Built => \A s \in SpanIds : Occ(tree.spans[s].children, s) = 0

\* C4: a span whose parent is non-empty and no key of spans is in roots, in no
\* children list, and keeps the parent id its entries declared.
C4_OrphanIsRoot ==
  Built =>
    \A s \in SpanIds :
      (tree.spans[s].parent # Empty /\ tree.spans[s].parent \notin SpanIds) =>
        /\ Occ(tree.roots, s) = 1
        /\ Holders(s) = {}
        /\ tree.spans[s].parent = DeclaredParent(s)

\* an orphan next to a span that has a child
C4_Witness ==
  /\ Built
  /\ \E s, p, c \in SpanIds :
       /\ tree.spans[s].parent = X
       /\ Occ(tree.roots, s) = 1
       /\ Occ(tree.spans[p].children, c) = 1

\* C5: two runs of BuildTree on the same entry list return the same roots sequence
\* and the same spans, children order included.
C5_Deterministic ==
  phase = "rebuilt" => tree = prevTree

\* q is in non-decreasing order of start time (the zero time is the least)
SortedByStart(q) ==
  \A i, j \in DOMAIN q : i < j => tree.spans[q[i]].startTime <= tree.spans[q[j]].startTime

\* C6: roots and every children list are in non-decreasing order of startTime,
\* an absent startTime first, whatever the input order.
C6_SortedByStartTime ==
  Built =>
    /\ SortedByStart(tree.roots)
    /\ \A s \in SpanIds : SortedByStart(tree.spans[s].children)

\* two roots whose start markers came in the opposite order in the input, and two
\* children of one span likewise
C6_Witness ==
  /\ Built
  /\ \E i, j \in DOMAIN entries :
       /\ i < j
       /\ entries[i].time > entries[j].time
       /\ \/ tree.roots = <<entries[j].span, entries[i].span>>
          \/ \E s \in SpanIds : tree.spans[s].children = <<entries[j].span, entries[i].span>>

\* C7: spans[s].entries is the subsequence of the input with span s, in input
\* order; spans has a key for exactly the non-empty span ids of the input, and the
\* grouped entries are as many as the input entries with a span.
C7_EntriesGrouped ==
  Built =>
    /\ SpanIds = {entries[i].span : i \in DOMAIN entries} \ {Empty}
    /\ \A s \in SpanIds :
         tree.spans[s].entries = SelectSeq(entries, LAMBDA e : e.span = s)
    /\ SumLogs(tree.spans, SpanIds) = Len(WithSpan(entries))

\* two spans with interleaved entries and an entry without a span
C7_Witness ==
  /\ Built
  /\ Len(entries) = MaxEntries
  /\ \E i \in DOMAIN entries : entries[i].span = Empty
  /\ \E s \in SpanIds : Len(tree.spans[s].entries) >= 2 /\ entries[1] # entries[Len(entries)]
                         /\ tree.spans[s].entries[1] # tree.spans[s].entries[2]

\* Levels[l] of a stats value, 0 for a level that is no key
LevelCount(st, l) == IF l \in DOMAIN st.levels THEN st.levels[l] ELSE 0

\* C8: Stats returns the number of distinct non-empty span ids, the number of
\* entries with a span, and per level the number of entries with a span and
\* that level.
C8_StatsCounts ==
  stats.called =>
    /\ stats.totalSpans = Cardinality({entries[i].span : i \in DOMAIN entries} \ {Empty})
    /\ stats.totalLogs = Cardinality({i \in DOMAIN entries : entries[i].span # Empty})
    /\ \A l \in {LevelInfo, LevelError} \cup DOMAIN stats.levels :
         LevelCount(stats, l) =
           Cardinality({i \in DOMAIN entries : entries[i].span # Empty /\ entries[i].level = l})

\* stats of a list with two levels, a span of two entries and a span-less entry
C8_Witness ==
  /\ stats.called
  /\ stats.totalLogs = 2
  /\ stats.totalSpans = 1
  /\ DOMAIN stats.levels = {LevelInfo, LevelError}
  /\ Len(entries) = 3

C9_WitnessEmpty ==
  Built /\ Len(entries) = 2 /\ WithSpan(entries) = <<>> /\ tree = EmptyTree

\* the format Parse fixes for the lines: that of the first non-blank line
DetectedFormat(lines) ==
  LET nb == {i \in DOMAIN lines : TrimSpace(lines[i]) # <<>>}
      f == CHOOSE i \in nb : \A j \in nb : i <= j
  IN  IF nb = {} THEN FormatUnknown
      ELSE IF Head(TrimSpace(lines[f])) = "{" THEN FormatJSON ELSE FormatText

LineResult(fmt, text) ==
  IF fmt = FormatJSON THEN parseJSONLine(TrimSpace(text)) ELSE parseTextLine(TrimSpace(text))

\* the line is not blank, parses under fmt and has a level and a message
Yields(fmt, text) ==
  /\ TrimSpace(text) # <<>>
  /\ ~LineResult(fmt, text).err
  /\ LineResult(fmt, text).entry.level # Empty
  /\ LineResult(fmt, text).entry.message # Empty

ExpectedEntries(lines) ==
  LET fmt == DetectedFormat(lines)
      kept == SelectSeq(lines, LAMBDA l : Yields(fmt, l))
  IN  [i \in 1..Len(kept) |-> LineResult(fmt, kept[i]).entry]

RemoveAt(q, k) == SubSeq(q, 1, k - 1) \o SubSeq(q, k + 1, Len(q))

\* C10: when the stream reads without error, Parse returns one entry for each
\* non-blank line that parses under the detected format with a non-empty level
\* and message, in line order; no returned entry lacks a level or a message; and a
\* line that yields no entry, between two that do, changes nothing for the others.
C10_ParseKeepsValidLines ==
  phase = "parsed" =>
    /\ parseOut.entries = ExpectedEntries(input)
    /\ \A i \in DOMAIN parseOut.entries :
         parseOut.entries[i].level # Empty /\ parseOut.entries[i].message # Empty
    /\ \A k \in DOMAIN input :
         ( /\ ~Yields(DetectedFormat(input), input[k])
           /\ \E i \in 1..k - 1 : Yields(DetectedFormat(input), input[i])
           /\ \E j \in k + 1..Len(input) : Yields(DetectedFormat(input), input[j]) )
         => Parse(RemoveAt(input, k)).entries = parseOut.entries

\* a non-blank line that yields no entry between two lines that do
C10_Witness ==
  /\ phase = "parsed"
  /\ Len(input) = 3
  /\ TrimSpace(input[2]) # <<>>
  /\ ~Yields(DetectedFormat(input), input[2])
  /\ Len(parseOut.entries) = 2
  /\ parseOut.entries[1] # parseOut.entries[2]

\* ------------------------------------------------------------ C11, C12
NonBlank(text) == TrimSpace(text) # <<>>
LooksJSON(text) == NonBlank(text) /\ Head(TrimSpace(text)) = "{"

\* the line is written in the format that fmt is not
OtherFormat(fmt, text) ==
  /\ NonBlank(text)
  /\ IF fmt = FormatJSON THEN ~LooksJSON(text) ELSE LooksJSON(text)

\* the entries of the lines that yield one when every line is read as fmt
EntriesUnder(fmt, lines) ==
  LET kept == SelectSeq(lines, LAMBDA l : Yields(fmt, l))
  IN  [i \in 1..Len(kept) |-> LineResult(fmt, kept[i]).entry]

Prefix(lines, k) == SubSeq(lines, 1, k)

\* the format Parse reports is the one the first non-blank line fixes, whether or
\* not that line yields an entry; it is unknown before that line and never changes
\* after it; and the entries are those of the lines read in that one format
FormatFixedOnce ==
  /\ parseOut.format = DetectedFormat(input)
  /\ \A k \in 0..Len(input) :
       /\ Parse(Prefix(input, k)).format \in {FormatUnknown, parseOut.format}
       /\ Parse(Prefix(input, k)).format = FormatUnknown
            <=> \A i \in 1..k : ~NonBlank(input[i])
  /\ parseOut.entries = EntriesUnder(parseOut.format, input)

\* C11 as stated: the format is fixed once by the first non-blank line, every later
\* line is parsed with it, and a line of the other format is skipped.
C11_OtherFormatSkipped ==
  phase = "parsed" =>
    /\ FormatFixedOnce
    /\ \A k \in DOMAIN input :
         OtherFormat(parseOut.format, input[k]) => ~Yields(parseOut.format, input[k])

\* C11: Parse fixes the format once, from the first non-blank line (JSON if it
\* starts with "{", text otherwise), whether or not that line yields an entry; the
\* format never changes afterwards, every later line is parsed with it and never
\* detected anew, and the returned format is that value.
C11_FormatFixedOnce == phase = "parsed" => FormatFixedOnce

\* the first non-blank line yields no entry, and a later line of the other format
\* is read in the fixed format
C11_Witness ==
  /\ phase = "parsed"
  /\ Len(input) = 3
  /\ NonBlank(input[1])
  /\ ~Yields(parseOut.format, input[1])
  /\ OtherFormat(parseOut.format, input[2])
  /\ Yields(parseOut.format, input[3])
  /\ Len(parseOut.entries) >= 1

\* C12 as stated: Parse fails only when reading the stream fails, with no result,
\* and no line's content or length makes it fail.
C12_OnlyReadErrorsFail ==
  phase = "failed" => perr = ErrRead /\ parseOut = NoResult

\* ------------------------------------------------------------ C13 .. C17
JKind(j) == j[1]
JField(j, k) == j[2][k]
JKeys(j) == DOMAIN j[2]
JElems(j) == j[2]

Served(kind) ==
  phase = "serving" /\ http.req.kind = kind /\ http.req.method = "GET"

\* the entries of the input that carry the span id, in input order
EntriesOfSpan(id) == SelectSeq(entries, LAMBDA e : e.span = id)

\* the JSON object shows the entry's time, level, message and span
Shows(j, e) ==
  /\ JKind(j) = "object"
  /\ JField(j, "time") = JStr(FormatTime(e.time))
  /\ JField(j, "level") = JStr(e.level)
  /\ JField(j, "message") = JStr(e.message)
  /\ JField(j, "span") = JStr(e.span)

\* the JSON array shows exactly the entries of es, in their order
ShowsAll(j, es) ==
  /\ JKind(j) = "array"
  /\ Len(JElems(j)) = Len(es)
  /\ \A i \in DOMAIN es : Shows(JElems(j)[i], es[i])

\* C13: a logs query without a span id, or with an empty one, is answered 400
\* 'span parameter required'; one whose span id is no key of the tree is answered
\* 404 'span not found'; any other is answered with exactly the entries of that
\* span, in input order, each carrying the requested span id.
C13_LogsOfSpan ==
  Served("logs") =>
    IF http.req.arg = Empty
    THEN http.resp.status = 400 /\ http.resp.error = "span parameter required"
    ELSE IF http.req.arg \notin DOMAIN tree.spans
    THEN http.resp.status = 404 /\ http.resp.error = "span not found"
    ELSE /\ http.resp.status = 200
         /\ JKeys(http.resp.body) = {"logs"}
         /\ ShowsAll(JField(http.resp.body, "logs"), EntriesOfSpan(http.req.arg))
         /\ ShowsAll(JField(http.resp.body, "logs"), tree.spans[http.req.arg].entries)
         /\ \A i \in DOMAIN JElems(JField(http.resp.body, "logs")) :
              JField(JElems(JField(http.resp.body, "logs"))[i], "span") = JStr(http.req.arg)

\* the logs of a span with two different entries, among entries of other spans
C13_Witness ==
  /\ Served("logs")
  /\ http.resp.status = 200
  /\ Len(JElems(JField(http.resp.body, "logs"))) = 2
  /\ JElems(JField(http.resp.body, "logs"))[1] # JElems(JField(http.resp.body, "logs"))[2]
  /\ Len(entries) = 3

\* q occurs in v when letter case is ignored
OccursIn(q, v) ==
  \E off \in 0..Len(v) :
    /\ off + Len(q) <= Len(v)
    /\ \A j \in 1..Len(q) : LowerChar(v[off + j]) = LowerChar(q[j])

MatchesIgnoringCase(e, q) ==
  OccursIn(q, e.message) \/ \E k \in DOMAIN e.attrs : OccursIn(q, e.attrs[k])

\* C14: a search with a non-empty query returns exactly the entries of the whole
\* entry list, span-less ones included, in input order, whose message or one of
\* whose attribute values contains the query when case is ignored, and a total
\* equal to their number; an empty or missing query is answered 400.
C14_SearchMatches ==
  Served("search") =>
    IF http.req.arg = Empty
    THEN http.resp.status = 400 /\ http.resp.error = "q parameter required"
    ELSE /\ http.resp.status = 200
         /\ JKeys(http.resp.body) = {"matches", "total"}
         /\ ShowsAll(JField(http.resp.body, "matches"),
                     SelectSeq(entries, LAMBDA e : MatchesIgnoringCase(e, http.req.arg)))
         /\ JField(http.resp.body, "total")
              = JNum(Len(JElems(JField(http.resp.body, "matches"))))

\* a query in another case than the text: one entry matches by its message, one by
\* an attribute value only, and one not at all
C14_Witness ==
  /\ Served("search")
  /\ http.req.arg = QueryMixed
  /\ JField(http.resp.body, "total") = JNum(2)
  /\ Len(entries) = 3
  /\ \E i \in DOMAIN entries :
       entries[i].span = Empty /\ OccursIn(QueryMixed, entries[i].message)
  /\ \E i \in DOMAIN entries :
       /\ ~OccursIn(QueryMixed, entries[i].message)
       /\ MatchesIgnoringCase(entries[i], QueryMixed)

\* the field is present in the object and holds v
Present(j, k, v) == k \in JKeys(j) /\ JField(j, k) = v

\* the log entry object shows the attributes, an empty object when there are none
ShowsAttrs(j, e) ==
  Present(j, "attrs", JObj([k \in DOMAIN e.attrs |-> JStr(e.attrs[k])]))

\* C15 as stated: an absent value is sent as a present, empty field and never
\* omitted: a span without a parent has parent "", one without a duration has
\* duration "", one without children has children [], and a log entry without
\* attributes has attrs {}.
C15_AbsentAsEmpty ==
  /\ Served("tree") =>
       \A id \in DOMAIN tree.spans :
         LET j == JField(JField(http.resp.body, "spans"), id)
         IN  /\ Present(j, "parent", JStr(tree.spans[id].parent))
             /\ Present(j, "duration", JStr(tree.spans[id].duration))
             /\ Present(j, "children",
                        JArr([i \in DOMAIN tree.spans[id].children |->
                                JStr(tree.spans[id].children[i])]))
  /\ (Served("logs") /\ http.resp.status = 200) =>
       \A i \in DOMAIN tree.spans[http.req.arg].entries :
         ShowsAttrs(JElems(JField(http.resp.body, "logs"))[i],
                    tree.spans[http.req.arg].entries[i])

\* C16: for every built tree, the empty one included, the tree response has a
\* list of roots, an object of spans and a list of children for every span, and
\* the stats response has an object of levels, none of them null; the stats of the
\* empty tree count no span and no log.
C16_NeverNull ==
  /\ Served("tree") =>
       /\ http.resp.status = 200
       /\ JKind(JField(http.resp.body, "roots")) = "array"
       /\ Len(JElems(JField(http.resp.body, "roots"))) = Len(tree.roots)
       /\ JKind(JField(http.resp.body, "spans")) = "object"
       /\ JKeys(JField(http.resp.body, "spans")) = DOMAIN tree.spans
       /\ \A id \in DOMAIN tree.spans :
            JKind(JField(JField(JField(http.resp.body, "spans"), id), "children")) = "array"
  /\ Served("stats") =>
       /\ http.resp.status = 200
       /\ JKind(JField(http.resp.body, "levels")) = "object"
       /\ entries = <<>> =>
            /\ JField(http.resp.body, "totalSpans") = JNum(0)
            /\ JField(http.resp.body, "totalLogs") = JNum(0)
            /\ JField(http.resp.body, "levels") = JObj(EmptyMap)

\* the server of an empty entry list answered a tree request and a stats request
C16_Witness ==
  /\ entries = <<>>
  /\ Served("stats")
  /\ http.memo # <<>>
  /\ http.memo[1].kind = "tree"
  /\ http.memo[2].status = 200
  /\ JField(http.memo[2].body, "roots") = JArr(<<>>)
  /\ JField(http.memo[2].body, "spans") = JObj(EmptyMap)

\* C17: no query operation, in any number and any interleaving of requests,
\* changes the tree or the entry list, and a request repeated on the same server
\* is answered as it was the first time.
C17_QueriesReadOnly ==
  [][ phase' = "serving" =>
        /\ tree' = tree
        /\ entries' = entries
        /\ http'.req = http.req => http'.resp = http.resp
        /\ (http'.memo # <<>> /\ http'.memo[1] = http'.req) => http'.resp = http'.memo[2]
    ]_vars

\* the first request of the server is answered again after another request
C17_Witness ==
  /\ phase = "serving"
  /\ http.memo # <<>>
  /\ http.memo[1] = http.req
  /\ http.req.kind = "search"
  /\ http.resp.status = 200
  /\ JField(http.resp.body, "total") = JNum(2)

\* ------------------------------------------------------------ C20
\* the start markers of the span, in input order
StartMarkers(id) ==
  SelectSeq(entries, LAMBDA e : e.span = id /\ isStartedMessage(e.message))

\* C20 as stated: the name of a span is the name derived from its earliest start
\* marker, and no later start marker changes it.
C20_FirstStartNames ==
  Built =>
    \A id \in SpanIds :
      StartMarkers(id) # <<>> =>
        tree.spans[id].name = extractSpanName(StartMarkers(id)[1].message)

\* ------------------------------------------------------------ C18, C19
CallIn(k) ==
  IF lib.calls[k].ctxIn = 0 THEN Background ELSE lib.ctxs[lib.calls[k].ctxIn]
CallOut(k) == lib.ctxs[lib.calls[k].ctxOut]
RecordsOf(k, op) ==
  {i \in DOMAIN lib.out : lib.out[i].origin = [op |-> op, call |-> k]}
Carries(rec, key) == Cardinality({i \in DOMAIN rec.attrs : rec.attrs[i][1] = key})

\* C18 as stated: the lines of a well-nested run of Start, end and log calls, read
\* by Parse and BuildTree, give a tree with exactly one span for each Start call,
\* whose parent is the span of the context passed to that call, whose name is the
\* name passed to it, and whose roots are the spans started without a span.
C18_TreeMirrorsCalls ==
  Built =>
    /\ SpanIds = {lib.calls[k].id : k \in DOMAIN lib.calls}
    /\ \A k \in DOMAIN lib.calls :
         /\ lib.calls[k].id \in SpanIds
         /\ tree.spans[lib.calls[k].id].parent = SpanID(CallIn(k))
         /\ tree.spans[lib.calls[k].id].name = lib.calls[k].name
    /\ {tree.roots[i] : i \in DOMAIN tree.roots}
         = {lib.calls[k].id : k \in {j \in DOMAIN lib.calls : SpanID(CallIn(j)) = Empty}}
    /\ \A i, j \in DOMAIN tree.roots : tree.roots[i] = tree.roots[j] => i = j

C21_ParentFirstWriterWins ==
  Built => \A s \in SpanIds : tree.spans[s].parent = DeclaredParent(s)

\* a span whose first entry declares no parent and whose later entries declare
\* two different ones
C21_Witness ==
  /\ Built
  /\ \E s \in SpanIds :
       LET es == tree.spans[s].entries
       IN  /\ Len(es) = 3
           /\ es[1].parent = Empty
           /\ es[2].parent # Empty
           /\ es[3].parent # Empty
           /\ es[3].parent # es[2].parent
           /\ tree.spans[s].parent = es[2].parent

\* ------------------------------------------------------------------ C22
\* the message is "completed" or ends with " completed"
CompletionMarker(msg) ==
  \/ msg = Completed
  \/ \E pre \in 0..Len(msg) : msg = SubSeq(msg, 1, pre) \o SpCompleted

\* positions of the input entries of span s that are completion markers with a
\* duration attribute
Completions(s) ==
  {i \in DOMAIN entries :
     /\ entries[i].span = s
     /\ CompletionMarker(entries[i].message)
     /\ KeyDuration \in DOMAIN entries[i].attrs}

\* C22: the duration of a span is the duration attribute of the last input entry
\* of that span that is a completion marker and has a duration attribute, and is
\* empty when the span has no such entry; a completion marker without the
\* attribute and a duration attribute on another entry leave it as it was.
C22_DurationOfLastCompletion ==
  Built =>
    \A s \in SpanIds :
      tree.spans[s].duration =
        IF Completions(s) = {} THEN Empty
        ELSE entries[CHOOSE i \in Completions(s) : \A j \in Completions(s) : j <= i]
               .attrs[KeyDuration]

\* a span with two completion markers of different durations, followed by a
\* completion marker without a duration
C22_Witness ==
  /\ Built
  /\ \E s \in SpanIds :
       LET es == tree.spans[s].entries
       IN  /\ Len(es) = 3
           /\ es[1].attrs = Put(EmptyMap, KeyDuration, Dur5)
           /\ es[2].attrs = Put(EmptyMap, KeyDuration, Dur9)
           /\ es[3].attrs = EmptyMap
           /\ \A i \in 1..3 : es[i].message = MsgDoneM
           /\ tree.spans[s].duration = Dur9

\* a span whose duration attributes are all on entries that are no completion
\* markers has no duration
C22_WitnessOther ==
  /\ Built
  /\ \E s \in SpanIds :
       /\ \E i \in DOMAIN tree.spans[s].entries :
            KeyDuration \in DOMAIN tree.spans[s].entries[i].attrs
       /\ tree.spans[s].duration = Empty

\* ------------------------------------------------------------------ C23
\* the message is "started" or ends with " started"
StartMarker(msg) ==
  \/ msg = Started
  \/ \E pre \in 0..Len(msg) : msg = SubSeq(msg, 1, pre) \o SpStarted

\* positions of the input entries of span s that are start markers
Starts(s) == {i \in DOMAIN entries : entries[i].span = s /\ StartMarker(entries[i].message)}

\* C23: the start time of a span is the timestamp of the first input entry of
\* that span that is a start marker, and is absent when the span has none; later
\* start markers and entries that are no start markers never determine it.
C23_StartTimeOfFirstMarker ==
  Built =>
    \A s \in SpanIds :
      tree.spans[s].startTime =
        IF Starts(s) = {} THEN 0
        ELSE entries[CHOOSE i \in Starts(s) : \A j \in Starts(s) : i <= j].time

\* positions of the start markers of span s that have a timestamp
TimedStarts(s) == {i \in Starts(s) : entries[i].time # 0}

\* C23 as the code has it: the start time of a span is the timestamp of the
\* first start marker of that span that has a timestamp, and is absent when the
\* span has none; a start marker without a timestamp leaves the choice to the
\* next one, and after a timestamp is taken no later entry changes it.
C23_StartTimeOfFirstTimedMarker ==
  Built =>
    \A s \in SpanIds :
      tree.spans[s].startTime =
        IF TimedStarts(s) = {} THEN 0
        ELSE entries[CHOOSE i \in TimedStarts(s) : \A j \in TimedStarts(s) : i <= j].time

\* a span whose first start marker has no timestamp and whose next two have
\* different ones
C23_Witness ==
  /\ Built
  /\ \E s \in SpanIds :
       LET es == tree.spans[s].entries
       IN  /\ Len(es) = 3
           /\ \A i \in 1..3 : StartMarker(es[i].message)
           /\ es[1].time = 0
           /\ es[2].time = 2
           /\ es[3].time = 1
           /\ tree.spans[s].startTime = 2

\* ------------------------------------------------------------------ C24
\* the message without its last 8 characters when it ends with " started",
\* the message itself otherwise
DerivedName(msg) ==
  IF \E pre \in 0..Len(msg) : msg = SubSeq(msg, 1, pre) \o SpStarted
  THEN SubSeq(msg, 1, Len(msg) - 8)
  ELSE msg

\* C24: a message is a start marker exactly when it is "started" or ends with
\* " started" (observed: a span of timestamped entries gets a start time exactly
\* when one of them is such a message), and the name derived from a message
\* ending with " started" is the message without its last 8 characters, for
\* every prefix however short; the bare "started" gives the name "started"
\* (observed on spans with exactly one start marker).
C24_MarkerAndName ==
  Built =>
    \A s \in SpanIds :
      /\ (tree.spans[s].startTime # 0) <=> (Starts(s) # {})
      /\ \A i \in Starts(s) : Starts(s) = {i} =>
           tree.spans[s].name = DerivedName(entries[i].message)

\* ------------------------------------------------------------------ C25
\* position of the first input entry of span s
FirstSeen(s) == CHOOSE i \in DOMAIN entries : entries[i].span = s /\
                  \A j \in DOMAIN entries : entries[j].span = s => i <= j

\* spans of equal start time are in the order in which the input first names them
InFirstSeenOrder(q) ==
  \A i, j \in DOMAIN q :
    (i < j /\ tree.spans[q[i]].startTime = tree.spans[q[j]].startTime) =>
      FirstSeen(q[i]) < FirstSeen(q[j])

\* C25: the ordering is stable: roots, and the children of one span, that have
\* equal start times appear in the order in which their spans were first seen
\* in the input.
C25_StableOrder ==
  Built =>
    /\ InFirstSeenOrder(tree.roots)
    /\ \A s \in SpanIds : InFirstSeenOrder(tree.spans[s].children)

\* ------------------------------------------------------------------ C26
\* the kind of a line of TimeLines, and the same line with a valid timestamp
KindOf(line) == CHOOSE d \in TimeLineKinds : TimeLine(d) = line
WithValidTime(line) == TimeLine([KindOf(line) EXCEPT !.tv = "valid"])

\* the lines written in the format of the first line
SameFormat(lines) == SelectSeq(lines, LAMBDA l : KindOf(l).fmt = KindOf(lines[1]).fmt)

\* the one entry Parse returns for the line alone
EntryOf(line) == Parse(<<line>>).entries[1]

\* C26: in the text and in the JSON format a line whose time is missing or does
\* not parse (for JSON also: is no string), and whose level and message are not
\* empty, still yields an entry; the entry has no time, and its other fields are
\* those of the entry the same line yields with a valid timestamp.
C26_BadTimeKeepsEntry ==
  phase = "parsed" =>
    LET kept == SameFormat(input)
    IN  /\ perr = NoError
        /\ Len(parseOut.entries) = Len(kept)
        /\ \A k \in DOMAIN kept :
             LET twin == WithValidTime(kept[k])
             IN  /\ Len(Parse(<<twin>>).entries) = 1
                 /\ EntryOf(twin).time = 2
                 /\ parseOut.entries[k] =
                      IF KindOf(kept[k]).tv = "valid" THEN EntryOf(twin)
                      ELSE [EntryOf(twin) EXCEPT !.time = 0]

\* a stream with a line of an unparseable time, a line without a time and a line
\* with a valid one, each yielding an entry
C26_Witness ==
  /\ phase = "parsed"
  /\ Len(input) = 3
  /\ Len(parseOut.entries) = 3
  /\ KindOf(input[1]).tv = "bad"
  /\ KindOf(input[2]).tv = "none"
  /\ KindOf(input[3]).tv = "valid"
  /\ parseOut.entries[1].time = 0
  /\ parseOut.entries[2].time = 0
  /\ parseOut.entries[3].time = 2
  /\ parseOut.entries[1].message # Empty

\* a JSON stream whose time member is a number
C26_WitnessJSON ==
  /\ phase = "parsed"
  /\ parseOut.format = FormatJSON
  /\ Len(input) = 1
  /\ KindOf(input[1]).tv = "number"
  /\ Len(parseOut.entries) = 1
  /\ parseOut.entries[1].time = 0

\* ------------------------------------------------------------------ C27
Returned == phase = "scan" /\ scan.out # <<>>

\* the line without its characters at the 0-based positions a .. b-1
Without(line, a, b) == SubSeq(line, 1, a) \o SubSeq(line, b + 1, Len(line))

\* the maximal runs <<a, b>> of characters other than the space that hold no '='
BareWords(line) ==
  {w \in (0..Len(line)) \X (0..Len(line)) :
     /\ w[1] < w[2]
     /\ \A j \in (w[1] + 1)..w[2] : line[j] \notin {" ", "="}
     /\ w[1] = 0 \/ line[w[1]] = " "
     /\ w[2] = Len(line) \/ line[w[2] + 1] = " "}

\* the tokenizer called on the line returns the same map as the stepwise scan
ScanAgrees == Returned => scan.out[1] = parseKeyValuePairs(scan.line)

\* C27 as stated: every space-delimited token of the line that holds no '=' can
\* be removed without changing the map the tokenizer returns.
C27_BareWordRemovable ==
  Returned =>
    \A w \in BareWords(scan.line) :
      parseKeyValuePairs(Without(scan.line, w[1], w[2])) = scan.out[1]

\* C27 as the code has it: a token without '=' that the scan meets where a key
\* may begin adds no key, and the map returned for the line is the map returned
\* for the line with that token removed.
C27_SkippedTokenRemovable ==
  /\ (phase = "scan" /\ scan.kind = "skip") => scan.result = scan.prev
  /\ Returned =>
       \A k \in DOMAIN scan.skips :
         parseKeyValuePairs(Without(scan.line, scan.skips[k][1], scan.skips[k][2]))
           = scan.out[1]

\* a returned map with a key, from a line where a token without '=' was skipped
C27_Witness ==
  /\ Returned
  /\ Len(scan.skips) = 1
  /\ DOMAIN scan.out[1] # {}

\* ------------------------------------------------------------------ C28
QuoteKindOf(line) == CHOOSE d \in QuoteKinds : QuoteLine(d.v, d.tail) = line

\* C28: for the line k="..." that holds the value v between double quotes, each
\* '"' and each backslash of v preceded by a backslash, the tokenizer returns
\* exactly v for k, spaces and '=' in it kept; tokens after the closing quote are
\* tokenized as usual (b=c and b="c" give c for b, a token without '=' gives
\* nothing).
C28_QuotingRoundTrip ==
  Returned =>
    LET d == QuoteKindOf(scan.line)
    IN  scan.out[1] =
          IF d.tail = <<>> THEN Put(EmptyMap, <<"k">>, d.v)
          ELSE Put(Put(EmptyMap, <<"k">>, d.v), B, Cc)

\* a value of a quote, a backslash and a space, followed by more tokens
C28_Witness ==
  /\ Returned
  /\ scan.out[1] = Put(Put(EmptyMap, <<"k">>, <<"\"", "\\", " ">>), B, Cc)

\* ------------------------------------------------------------------ C29
\* every position and every slice bound of the scan is inside the line
InsideLine ==
  /\ 0 <= scan.i /\ scan.i <= Len(scan.line)
  /\ 0 <= scan.from /\ scan.from <= scan.to /\ scan.to <= Len(scan.line)

\* an iteration of the scan leaves the position greater than it found it
Advances == ScanStep => scan'.i > scan.i

\* C29: on every line the tokenizer terminates and returns a map and no error;
\* no position it reads or slices at is outside the line; every iteration of its
\* scan strictly advances the position.
C29_ScanTerminates ==
  /\ [](phase = "scan" => InsideLine)
  /\ [](Returned => scan.out[2] = NoError)
  /\ [][Advances]_vars
  /\ <>(phase = "scan" => Returned)

\* returned for a line that ends inside a quoted value with a backslash
C29_Witness ==
  /\ Returned
  /\ scan.line = <<"k", "=", "\"", "k", "\\">>
  /\ scan.out[1] = Put(EmptyMap, <<"k">>, <<"k", "\\">>)

\* returned for a line of an empty key with nothing after '=' between spaces
C29_WitnessEmptyKey ==
  /\ Returned
  /\ scan.line = <<" ", "=", " ">>

\* ------------------------------------------------------------------ C30
\* the context a written record was logged with
ContextOf(rec) ==
  IF rec.origin.op = "log" THEN lib.ctxs[rec.origin.call]
  ELSE lib.ctxs[lib.calls[rec.origin.call].ctxOut]

\* C30: whatever calls of SetDefault come between Start, end and the log calls,
\* every record written for a context with a span has exactly one span attribute,
\* equal to the span id of the context, and exactly one parent attribute, equal
\* to its parent id, when that is not empty.
C30_OneSpanAttribute ==
  \A i \in DOMAIN lib.out :
    LET rec == lib.out[i]
        ctx == ContextOf(rec)
    IN  ctx.has =>
          /\ Carries(rec, KeySpan) = 1
          /\ AttrOf(rec, KeySpan) = SpanID(ctx)
          /\ ParentID(ctx) # Empty =>
               /\ Carries(rec, KeyParent) = 1
               /\ AttrOf(rec, KeyParent) = ParentID(ctx)

====
